---- MODULE Spec2Model ----
(***************************************************************************)
(* Model of the uk-loan-visualizer computation engines.                    *)
(*                                                                         *)
(*   rj : calculateRepaymentJourney  (packages/engine/src/main.js)         *)
(*   dl : calculateDualLedgerJourney (engine.js, the dual-ledger engine)   *)
(*   ts : calculateDualLedgerJourney (packages/engine/src/index.ts)        *)
(*                                                                         *)
(* Numbers.  A JavaScript number holding pounds is modelled as an integer  *)
(* count of mills (1/1000 pound), so that a pounds value need not be a     *)
(* whole number of pence and Money.fromPounds has something to round.      *)
(* Money holds integer pence, as in the source.  remainingTermMonths is    *)
(* modelled in half months, so that a non-integer term can be passed.      *)
(* Rates are exact rationals and arithmetic on numbers is exact, except    *)
(* in the two places of Loan.requiredMonthlyPayment where the rounding     *)
(* error of double arithmetic decides the result: a power (1+r)^-n below   *)
(* 2^-54 is absorbed by 1 - x, and a payment that is mathematically an     *)
(* exact half penny reaches Math.round on either side of the half (the     *)
(* double (0.29 * 0.5) * 100 is 14.499999999999998), so both neighbours    *)
(* are outcomes.  NaN and Infinity are distinguished values that only      *)
(* Number.isFinite inspects.                                               *)
(* The dual-ledger engine works on plain numbers: its amounts are kept in  *)
(* mills and are never rounded.  index.ts derives the required payment     *)
(* P*r / (1 - (1+r)^-N) without rounding it: its amounts are kept as       *)
(* integer counts of 1/den mill, den being the denominator of that         *)
(* payment.                                                                *)
(***************************************************************************)
EXTENDS Integers, Sequences, FiniteSets, TLC

\* ------------------------------------------------------------------ bounds
MaxBalancePence == 12     \* whole-pence balances offered: 3p .. MaxBalancePence
MaxTermHalves   == 6      \* terms offered: 0, 1/2, 1, .. MaxTermHalves/2 months
MaxOverpayPence == 1      \* whole-pence overpayments offered: 0 .. MaxOverpayPence
LongTermMonths  == 93     \* the long term offered to calculateRepaymentJourney

\* events handled in one burst, before the microtask runs
MaxBurst == 3

\* ------------------------------------------------------- JavaScript numbers
NaN      == 999999999
Infinity == 999999998
IsFinite(x)     == x # NaN /\ x # Infinity
\* the term is carried in half months: an integer is an even count
IsIntegerHalves(h) == IsFinite(h) /\ h % 2 = 0

Min(a, b) == IF a < b THEN a ELSE b
Max(a, b) == IF a > b THEN a ELSE b

\* Math.round of the rational num/den (den > 0): nearest integer, halves up
MathRound(num, den) == (2 * num + den) \div (2 * den)

RECURSIVE Pow(_, _)
Pow(b, e) == IF e = 0 THEN 1 ELSE b * Pow(b, e - 1)

RECURSIVE GCD(_, _)
GCD(a, b) == IF b = 0 THEN a ELSE GCD(b, a % b)

\* ------------------------------------------------------------------- Money
\* Money.fromPounds: pounds (here mills) to pence, Math.round(amount * 100)
FromPounds(mills) == MathRound(mills, 10)
\* Money.toNumber: pence to pounds (here mills)
ToNumber(pence) == 10 * pence

\* -------------------------------------------------------------------- Loan
\* Loan.monthlyRate: aprPercent / 100 / 12 as a reduced fraction <<num, den>>
MonthlyRate(aprPercent) ==
  IF aprPercent = 0 THEN <<0, 1>>
  ELSE LET g == GCD(aprPercent, 1200) IN <<aprPercent \div g, 1200 \div g>>

\* a power carried as <<m, e>>, standing for m * 2^e with a 15-bit mantissa
\* 2^14 <= m < 2^15 that is rounded down
FloatOf(num, den) ==                       \* 1 <= num/den <= 2
  IF num = 2 * den THEN <<2^14, -13>> ELSE <<(num * 2^14) \div den, -14>>
FloatMul(p, q) ==
  LET x == p[1] * q[1]
  IN IF x >= 2^29 THEN <<x \div 2^15, p[2] + q[2] + 15>>
                  ELSE <<x \div 2^14, p[2] + q[2] + 14>>
RECURSIVE FloatPow(_, _)
FloatPow(b, n) ==                          \* n >= 1, by repeated squaring
  IF n = 1 THEN b
  ELSE LET h  == FloatPow(b, n \div 2)
           sq == FloatMul(h, h)
       IN IF n % 2 = 1 THEN FloatMul(sq, b) ELSE sq

\* half an ulp of 1: 1 - x evaluates to 1 for every x <= 2^-54
AbsorbedExponent == 54
\* denom = 1 - Math.pow(1 + r, -n) evaluates to exactly 1: (1+r)^n >= 2^54
DenomIsOne(a, b, n) ==
  FloatPow(FloatOf(a + b, b), n)[2] + 14 >= AbsorbedExponent

\* paymentPounds of Loan.requiredMonthlyPayment, in pence, as <<num, den>>:
\*   P*r / (1 - (1+r)^-n)  =  P * a * (a+b)^n / (b * ((a+b)^n - b^n)),  r = a/b
PaymentPounds(P, n, aprPercent) ==
  LET r == MonthlyRate(aprPercent)
      a == r[1]
      b == r[2]
  IN IF a = 0 THEN <<P, n>>
     ELSE IF DenomIsOne(a, b, n) THEN <<P * a, b>>
     ELSE <<P * a * Pow(a + b, n), b * (Pow(a + b, n) - Pow(b, n))>>

\* Loan.requiredMonthlyPayment: the annuity payment rounded to the penny, as
\* the set of values Money.fromPounds(paymentPounds) can return (in pence)
RequiredMonthlyPaymentOutcomes(P, n, aprPercent) ==
  LET q == PaymentPounds(P, n, aprPercent)
  IN IF (2 * q[1]) % (2 * q[2]) = q[2]
       THEN {MathRound(q[1], q[2]) - 1, MathRound(q[1], q[2])}
       ELSE {MathRound(q[1], q[2])}

\* const requiredPay = this.loan.requiredMonthlyPayment(): the same for every
\* call on one loan
RequiredMonthlyPayment(loan) == loan.requiredPay

\* ---------------------------------------------------- OverpaymentSimulator
SafetyCapMonths == 6000
MAX_MONTHS(loan) == loan.remainingMonths + SafetyCapMonths

\* mutants of LoopBody: the overpayment subtracted from the payment; the
\* principal recorded before it is capped by the opening balance
LoopBody_OverpaymentSubtracted(loan, opening, monthlyOverpayment) ==
  LET r              == MonthlyRate(loan.aprPercent)
      requiredPay    == RequiredMonthlyPayment(loan)
      interest       == MathRound(opening * r[1], r[2])
      plannedPayment == requiredPay - monthlyOverpayment
      principalPay   == Min(Max(plannedPayment - interest, 0), opening)
      closing        == opening - principalPay
  IN [openingBalance  |-> ToNumber(opening),
      interest        |-> ToNumber(interest),
      principal       |-> ToNumber(principalPay),
      overpayment     |-> ToNumber(monthlyOverpayment),
      requiredPayment |-> ToNumber(requiredPay),
      closingBalance  |-> ToNumber(closing),
      interestPence   |-> interest,
      closingPence    |-> closing]

LoopBody_PrincipalBeforeCap(loan, opening, monthlyOverpayment) ==
  LET r              == MonthlyRate(loan.aprPercent)
      requiredPay    == RequiredMonthlyPayment(loan)
      interest       == MathRound(opening * r[1], r[2])
      plannedPayment == requiredPay + monthlyOverpayment
      uncapped       == Max(plannedPayment - interest, 0)
      principalPay   == Min(uncapped, opening)
      closing        == opening - principalPay
  IN [openingBalance  |-> ToNumber(opening),
      interest        |-> ToNumber(interest),
      principal       |-> ToNumber(uncapped),
      overpayment     |-> ToNumber(monthlyOverpayment),
      requiredPayment |-> ToNumber(requiredPay),
      closingBalance  |-> ToNumber(closing),
      interestPence   |-> interest,
      closingPence    |-> closing]

\* one pass of the while loop body: the schedule entry computed from the
\* opening balance (all Money, in pence)
LoopBody(loan, opening, monthlyOverpayment) ==
  LET r              == MonthlyRate(loan.aprPercent)
      requiredPay    == RequiredMonthlyPayment(loan)
      interest       == MathRound(opening * r[1], r[2])
      plannedPayment == requiredPay + monthlyOverpayment
      principalPay   == Min(Max(plannedPayment - interest, 0), opening)
      closing        == opening - principalPay
  IN [openingBalance  |-> ToNumber(opening),
      interest        |-> ToNumber(interest),
      principal       |-> ToNumber(principalPay),
      overpayment     |-> ToNumber(monthlyOverpayment),
      requiredPayment |-> ToNumber(requiredPay),
      closingBalance  |-> ToNumber(closing),
      interestPence   |-> interest,
      closingPence    |-> closing]

NoEntry == [openingBalance |-> 0, interest |-> 0, principal |-> 0,
            overpayment |-> 0, requiredPayment |-> 0, closingBalance |-> 0,
            interestPence |-> 0, closingPence |-> 0]

\* the locals of simulate() before the first iteration
SimStart(loan, monthlyOverpayment) ==
  [overpay       |-> monthlyOverpayment,
   balance       |-> loan.principal,
   month         |-> 0,
   totalInterest |-> 0,
   last          |-> NoEntry,     \* the entry pushed last
   principalSum  |-> 0]           \* sum of the principal column so far (mills)

NoSim == [overpay |-> 0, balance |-> 0, month |-> 0, totalInterest |-> 0,
          last |-> NoEntry, principalSum |-> 0]

\* the value simulate() returns
SimResult(s) ==
  [months         |-> s.month,
   totalInterest  |-> ToNumber(s.totalInterest),
   last           |-> s.last,
   principalSum   |-> s.principalSum,
   finalBalance   |-> s.balance]

NoResult == [months |-> 0, totalInterest |-> 0, last |-> NoEntry,
             principalSum |-> 0, finalBalance |-> 0]

\* ------------------------------------------------------------------ inputs
\* pounds in mills: 4 rounds down to 0p, 10 is 1p, 15 rounds up to 2p
BalanceInputs == {NaN, Infinity, -10, 0, 4, 10, 15} \cup {10 * k : k \in 3..MaxBalancePence}
TermInputs    == {NaN} \cup (0..MaxTermHalves)
\* APR percent: monthly rates 0, 1/4, 1/2 and 1
AprInputs     == {NaN, -12, 0, 300, 600, 1200}
OverpayInputs == {NaN, -10, 4} \cup {10 * k : k \in 0..MaxOverpayPence}

\* a long loan at a monthly rate of 1/2: 0.29 over LongTermMonths at 600%
LongTermInputs == [outstandingBalance  : {290},
                   remainingTermMonths : {2 * LongTermMonths},
                   aprPercent          : {600},
                   monthlyOverpayment  : {10 * k : k \in 0..MaxOverpayPence}]

RJInputs == [outstandingBalance  : BalanceInputs,
             remainingTermMonths : TermInputs,
             aprPercent          : AprInputs,
             monthlyOverpayment  : OverpayInputs] \cup LongTermInputs

NoInput == [outstandingBalance |-> 0, remainingTermMonths |-> 0,
            aprPercent |-> 0, monthlyOverpayment |-> 0]
NoLoan  == [principal |-> 0, remainingMonths |-> 0, aprPercent |-> 0,
            requiredPay |-> 0]

\* ------------------------------------- dual-ledger engines: plain numbers
\* A monthly rate is carried as a count of 1/RateUnit, an annual percentage
\* as a fraction <<num, den>>; a product with a rate is rounded down to the
\* unit of the amount.
RateUnit == 2^14
Percent(a) == <<a, 1>>

\* amount * rate
Scale(amount, rate) ==
  (amount \div RateUnit) * rate + ((amount % RateUnit) * rate) \div RateUnit

FloatLE(p, q) == p[2] < q[2] \/ (p[2] = q[2] /\ p[1] <= q[1])

\* Math.pow(T, 1/12) - 1 in units of 1/RateUnit: the largest rate of lo..hi-1
\* whose twelfth power of (1 + rate) does not exceed T
RECURSIVE TwelfthRoot(_, _, _)
TwelfthRoot(lo, hi, T) ==
  IF hi - lo <= 1 THEN lo
  ELSE LET mid == (lo + hi) \div 2
       IN IF FloatLE(FloatPow(FloatOf(RateUnit + mid, RateUnit), 12), T)
          THEN TwelfthRoot(mid, hi, T) ELSE TwelfthRoot(lo, mid, T)

\* (1 + a/100)^(1/12) - 1 for a = num/den percent, 0 <= a: exact when the
\* monthly rate is a whole number, the root above otherwise (a <= 100)
MonthlyRateOf(num, den) ==
  IF \E r \in 0..1 : 100 * den * Pow(1 + r, 12) = 100 * den + num
  THEN RateUnit * (CHOOSE r \in 0..1 : 100 * den * Pow(1 + r, 12) = 100 * den + num)
  ELSE TwelfthRoot(0, RateUnit, FloatOf(100 * den + num, 100 * den))

\* ---------------------------------------------- dual-ledger engine: helpers
\* monthlyRateFromAPR: (1 + max(0, Number(apr) || 0) / 100)^(1/12) - 1
MonthlyRateFromAPR(aprPercent) ==
  MonthlyRateOf(Max(0, IF aprPercent[1] = NaN THEN 0 ELSE aprPercent[1]),
                aprPercent[2])

\* EPS = 1e-9 pounds lies strictly between 0 and one mill
ExceedsEPS(x) == x >= 1

SimulateLoanCapExtra == 120

NoPoint == [month |-> 0, balance |-> 0, interest |-> 0, payment |-> 0]

\* locals of simulateLoan(balanceStart, r_m, payment, maxMonths) at loop entry
LedgerStart(balanceStart, r_m, payment, maxMonths) ==
  [balance       |-> Max(0, balanceStart),
   r_m           |-> r_m,
   payment       |-> payment,
   CAP           |-> maxMonths + SimulateLoanCapExtra,
   totalInterest |-> 0,
   months        |-> 0,
   last          |-> NoPoint]     \* the schedule entry pushed last

NoLedger == [balance |-> 0, r_m |-> 0, payment |-> 0, CAP |-> 0,
             totalInterest |-> 0, months |-> 0, last |-> NoPoint]

\* while (balance > EPS && months < CAP)
LedgerGuard(l) == ExceedsEPS(l.balance) /\ l.months < l.CAP

\* the throw inside the loop of simulateLoan
LedgerThrows(l) == l.payment < Scale(l.balance, l.r_m)

\* one iteration of the loop of simulateLoan (when it does not throw)
LedgerStep(l) ==
  LET interest  == Scale(l.balance, l.r_m)
      principal == Min(l.payment - interest, l.balance)
      balance   == l.balance - principal
  IN [l EXCEPT !.balance = balance,
               !.totalInterest = @ + interest,
               !.months = @ + 1,
               !.last = [month |-> l.months + 1, balance |-> balance,
                         interest |-> interest, payment |-> l.payment]]

\* the value simulateLoan returns
LedgerResult(l) ==
  [months |-> l.months, totalInterest |-> l.totalInterest,
   last |-> l.last, finalBalance |-> l.balance]

NoLedgerResult == [months |-> 0, totalInterest |-> 0, last |-> NoPoint,
                   finalBalance |-> 0]

NoLedgerPoint == [month |-> 0, balance |-> 0, interest |-> 0, payment |-> 0,
                  investPot |-> 0, investContrib |-> 0, investGrowth |-> 0,
                  wealth |-> 0]

\* locals of simulateApplesPaths({P, N, rLoan_m, R, O, M, rAnnual}) at loop entry
PathsStart(P, N, rLoan_m, R, O, M, rAnnual) ==
  [N |-> N, rLoan_m |-> rLoan_m, R |-> R, O |-> O, M |-> M,
   rInv_m      |-> MonthlyRateFromAPR(rAnnual),
   t           |-> 1,
   balInvest   |-> P,
   balOverpay  |-> P,
   potInvest   |-> 0,
   potOverpay  |-> 0,
   investInterest  |-> 0,        \* sum of the interest column, invest path
   overpayInterest |-> 0,        \* sum of the interest column, overpay path
   investLast  |-> NoLedgerPoint,  \* the entries pushed last
   overpayLast |-> NoLedgerPoint,
   deltaWealth |-> << >>]          \* overpay wealth - invest wealth, per entry

NoPaths == [N |-> 0, rLoan_m |-> 0, R |-> 0, O |-> 0, M |-> 0, rInv_m |-> 0,
            t |-> 1, balInvest |-> 0, balOverpay |-> 0, potInvest |-> 0,
            potOverpay |-> 0, investInterest |-> 0, overpayInterest |-> 0,
            investLast |-> NoLedgerPoint, overpayLast |-> NoLedgerPoint,
            deltaWealth |-> << >>]

\* one iteration of the loop of simulateApplesPaths
PathsStep(p) ==
  LET \* path 1: invest
      intI         == Scale(p.balInvest, p.rLoan_m)
      prinI        == Min(p.R - intI, p.balInvest)
      balInvest    == p.balInvest - prinI
      growthI      == Scale(p.potInvest, p.rInv_m)
      potInvest    == p.potInvest + growthI + p.O
      \* path 2: overpay
      isPayingDebt == p.t <= p.M
      payO         == IF isPayingDebt THEN p.R + p.O ELSE 0
      intO         == IF isPayingDebt THEN Scale(p.balOverpay, p.rLoan_m) ELSE 0
      contribO     == IF isPayingDebt THEN 0 ELSE p.R + p.O
      balOverpay   == IF isPayingDebt
                      THEN p.balOverpay - Min(payO - intO, p.balOverpay)
                      ELSE 0
      growthO      == Scale(p.potOverpay, p.rInv_m)
      potOverpay   == p.potOverpay + growthO + contribO
  IN [p EXCEPT !.t = @ + 1,
               !.balInvest = balInvest,
               !.balOverpay = balOverpay,
               !.potInvest = potInvest,
               !.potOverpay = potOverpay,
               !.investInterest = @ + intI,
               !.overpayInterest = @ + intO,
               !.investLast =
                  [month |-> p.t, balance |-> balInvest, interest |-> intI,
                   payment |-> p.R, investPot |-> potInvest,
                   investContrib |-> p.O, investGrowth |-> growthI,
                   wealth |-> potInvest - balInvest],
               !.overpayLast =
                  [month |-> p.t, balance |-> balOverpay, interest |-> intO,
                   payment |-> payO, investPot |-> potOverpay,
                   investContrib |-> contribO, investGrowth |-> growthO,
                   wealth |-> potOverpay - balOverpay],
               !.deltaWealth =
                  Append(@, (potOverpay - balOverpay) - (potInvest - balInvest))]

\* the value simulateApplesPaths returns
PathsResult(p) ==
  [investPath  |-> [months |-> p.N, last |-> p.investLast,
                    totalInterest |-> p.investInterest,
                    finalPot |-> p.potInvest],
   overpayPath |-> [months |-> p.N, last |-> p.overpayLast,
                    totalInterest |-> p.overpayInterest,
                    finalPot |-> p.potOverpay],
   atN         |-> [investPot |-> p.potInvest, overpayPot |-> p.potOverpay,
                    delta |-> p.potOverpay - p.potInvest]]

NoPathsResult == PathsResult(NoPaths)

\* k iterations of the loop of simulateApplesPaths
RECURSIVE PathsRun(_, _)
PathsRun(p, k) ==
  IF k = 0 THEN p
  ELSE IF k = 1 THEN PathsStep(p)
  ELSE LET half == PathsRun(p, k \div 2)       \* the first k \div 2 periods
       IN IF half = p THEN p ELSE PathsRun(half, k - k \div 2)

\* simulateApplesPaths({P, N, rLoan_m, R, O, M, rAnnual}), run to its return
SimulateApplesPaths(P, N, rLoan_m, R, O, M, rAnnual) ==
  PathsResult(PathsRun(PathsStart(P, N, rLoan_m, R, O, M, rAnnual), N))

\* ------------------------------------------------- computeBreakEvenReturn
\* null
Null == -1

\* An annual rate of the search is a count of 1/PercentUnit percent.
PercentUnit       == 2^9
BreakEvenLo       == 0
BreakEvenHi       == 100
BreakEvenTolerance == 1000          \* Math.abs(f) < 1, one pound, in mills
BisectIterations  == 50

Sign(x) == IF x > 0 THEN 1 ELSE IF x < 0 THEN -1 ELSE 0
Abs(x) == IF x < 0 THEN -x ELSE x

\* deltaAt(rAnnual), for the arguments d = {P, N, rLoan_m, R, O, M}
DeltaAt(d, rAnnual) ==
  SimulateApplesPaths(d.P, d.N, d.rLoan_m, d.R, d.O, d.M, rAnnual).atN.delta

\* the locals of computeBreakEvenReturn; result is the value returned
NoSolver == [lo |-> 0, hi |-> 0, fLo |-> 0, fHi |-> 0, i |-> 0,
             returned |-> FALSE, result |-> 0]

\* mutant of BreakEvenStart: the upper bound is returned when no sign changes
BreakEvenStart_GuessesUpperBound(d) ==
  LET lo  == BreakEvenLo * PercentUnit
      hi  == BreakEvenHi * PercentUnit
      fLo == DeltaAt(d, <<lo, PercentUnit>>)
      fHi == DeltaAt(d, <<hi, PercentUnit>>)
  IN IF Abs(fLo) < BreakEvenTolerance
       THEN [NoSolver EXCEPT !.fLo = fLo, !.lo = lo, !.hi = hi,
                             !.returned = TRUE, !.result = 0]
     ELSE IF Sign(fLo) = Sign(fHi)
       THEN [NoSolver EXCEPT !.fLo = fLo, !.fHi = fHi, !.lo = lo, !.hi = hi,
                             !.returned = TRUE, !.result = hi]
     ELSE [NoSolver EXCEPT !.fLo = fLo, !.fHi = fHi, !.lo = lo, !.hi = hi]

\* computeBreakEvenReturn up to the loop: returns 0 when the delta at 0% is
\* within the tolerance, null when the deltas at 0% and 100% have one sign
BreakEvenStart(d) ==
  LET lo  == BreakEvenLo * PercentUnit
      hi  == BreakEvenHi * PercentUnit
      fLo == DeltaAt(d, <<lo, PercentUnit>>)
      fHi == DeltaAt(d, <<hi, PercentUnit>>)
  IN IF Abs(fLo) < BreakEvenTolerance
       THEN [NoSolver EXCEPT !.fLo = fLo, !.lo = lo, !.hi = hi,
                             !.returned = TRUE, !.result = 0]
     ELSE IF Sign(fLo) = Sign(fHi)
       THEN [NoSolver EXCEPT !.fLo = fLo, !.fHi = fHi, !.lo = lo, !.hi = hi,
                             !.returned = TRUE, !.result = Null]
     ELSE [NoSolver EXCEPT !.fLo = fLo, !.fHi = fHi, !.lo = lo, !.hi = hi]

\* mutant of BisectStep: the iterations are not counted
BisectStep_NotCounted(d, sv) ==
  LET mid  == (sv.lo + sv.hi) \div 2
      fMid == DeltaAt(d, <<mid, PercentUnit>>)
  IN IF Abs(fMid) < BreakEvenTolerance
       THEN [sv EXCEPT !.returned = TRUE, !.result = mid]
     ELSE IF Sign(fMid) = Sign(sv.fLo)
       THEN [sv EXCEPT !.lo = mid, !.fLo = fMid]
     ELSE [sv EXCEPT !.hi = mid]

\* one iteration of the bisection loop
BisectStep(d, sv) ==
  LET mid  == (sv.lo + sv.hi) \div 2
      fMid == DeltaAt(d, <<mid, PercentUnit>>)
  IN IF Abs(fMid) < BreakEvenTolerance
       THEN [sv EXCEPT !.returned = TRUE, !.result = mid]
     ELSE IF Sign(fMid) = Sign(sv.fLo)
       THEN [sv EXCEPT !.lo = mid, !.fLo = fMid, !.i = @ + 1]
     ELSE [sv EXCEPT !.hi = mid, !.i = @ + 1]

\* return (lo + hi) / 2 after the loop
BisectEnd(sv) ==
  [sv EXCEPT !.returned = TRUE, !.result = (sv.lo + sv.hi) \div 2]


\* let crossoverMonth = null; for (i ...) if (deltaWealthByMonth[i] >= 0)
\*   { crossoverMonth = i + 1; break; }
CrossoverMonth(deltaWealthByMonth) ==
  LET hits == {i \in 1..Len(deltaWealthByMonth) : deltaWealthByMonth[i] >= 0}
  IN IF hits = {} THEN Null
     ELSE CHOOSE i \in hits : \A j \in hits : i <= j

\* the properties of the fair block of the object returned by engine.js
DLFairKeys == {"requiredMonthlyPayment", "investPath", "overpayPath",
               "deltaWealthByMonth", "crossoverMonth",
               "breakEvenAnnualReturnPercent", "atN"}

NoDL == [P |-> 0, N |-> 0, O |-> 0, R |-> 0, rLoan_m |-> 0,
         baseline |-> NoLedgerResult, withOverpay |-> NoLedgerResult,
         monthsSaved |-> 0, interestSaved |-> 0, fair |-> NoPathsResult,
         solver |-> NoSolver, breakEvenAnnualReturnPercent |-> Null,
         deltaWealthByMonth |-> << >>, crossoverMonth |-> Null]

\* ------------------------------------------------------- dual-ledger inputs
DLBalanceInputs == {NaN, Infinity, -10, 0, 100, 200}
DLAprInputs     == {NaN, -12, 0, 409500}     \* monthly rates 0 and 1
DLPaymentInputs == {NaN, 0, 50, 100, 150, 250}
DLOverpayInputs == {NaN, -10, 0, 50}
DLReturnInputs  == {NaN, 0, 409500}

\* a payment that only covers the interest never clears the loan; it is
\* offered with a zero expected return only (the pot would double each of
\* the CAP months otherwise)
DLSmallInputs ==
  {in \in [outstandingBalance          : DLBalanceInputs,
           remainingTermMonths         : TermInputs,
           aprPercent                  : DLAprInputs,
           currentMonthlyPayment       : DLPaymentInputs,
           monthlyOverpayment          : DLOverpayInputs,
           expectedAnnualReturnPercent : DLReturnInputs] :
      (in.expectedAnnualReturnPercent = 409500 /\ in.aprPercent = 409500)
         => in.currentMonthlyPayment # in.outstandingBalance}

\* loans of pounds rather than pence, whose pots differ by more than the
\* tolerance of the break-even search: 1000.00 (and 100 times as much) at 0%
\* paid 520.00 + 500.00 a month, 10.00 at 409500% paid 15.00 + 5.00
DLPoundsInputs ==
  {[outstandingBalance          |-> in[1],
    remainingTermMonths         |-> 4,
    aprPercent                  |-> in[2],
    currentMonthlyPayment       |-> in[3],
    monthlyOverpayment          |-> in[4],
    expectedAnnualReturnPercent |-> 0] :
     in \in {<<1000000, 0, 520000, 500000>>,
             <<100000000, 0, 52000000, 50000000>>,
             <<10000, 409500, 15000, 5000>>}}

DLInputs == DLSmallInputs \cup DLPoundsInputs

\* ------------------------------------------------------- index.ts: helpers
\* annualToMonthlyRate: 0 for annualPercent <= 0, else (1 + a/100)^(1/12) - 1
AnnualToMonthlyRate(annualPercent) ==
  IF annualPercent[1] <= 0 THEN 0
  ELSE MonthlyRateOf(annualPercent[1], annualPercent[2])

\* requiredPayment(outstanding, months, aprPercent) as a fraction <<num, den>>
\* of mills: outstanding / months, or outstanding*r / (1 - (1+r)^-months)
RequiredPayment(outstanding, months, aprPercent) ==
  LET r == AnnualToMonthlyRate(aprPercent)
      g == GCD(r, RateUnit)
      a == r \div g                          \* r = a/b
      b == RateUnit \div g
  IN IF months <= 0 THEN <<0, 1>>
     ELSE IF r = 0 THEN <<outstanding, months>>
     ELSE <<outstanding * a * Pow(a + b, months),
            b * (Pow(a + b, months) - Pow(b, months))>>

\* LoanLedger.step(payment) on a ledger holding balance at monthly rate r
LoanLedgerStep(balance, r, payment) ==
  IF balance <= 0 THEN [balance |-> 0, interest |-> 0, principal |-> 0]
  ELSE LET interest  == Scale(balance, r)
           principal == Min(Max(0, payment - interest), balance)
       IN [balance   |-> Max(0, balance - principal),
           interest  |-> interest,
           principal |-> principal]

\* mutant of InvestmentLedgerStep: the contribution is added before the growth
InvestmentLedgerStep_ContribFirst(pot, r, contrib) ==
  [pot    |-> Scale(pot + contrib, RateUnit + r),
   contrib |-> contrib,
   growth |-> Scale(pot + contrib, r)]

\* mutant of InvestmentLedgerStep: the growth is taken from the pot
InvestmentLedgerStep_GrowthSubtracted(pot, r, contrib) ==
  [pot    |-> pot - Scale(pot, r) + contrib,
   contrib |-> contrib,
   growth |-> Scale(pot, r)]

\* InvestmentLedger.step(contrib) on a ledger holding pot at monthly rate r
InvestmentLedgerStep(pot, r, contrib) ==
  [pot    |-> Scale(pot, RateUnit + r) + contrib,
   contrib |-> contrib,
   growth |-> Scale(pot, r)]

\* the pots of the two investment ledgers of the fair loop after k of its
\* iterations, at the monthly rate rInv, for the locals t of the facade
RECURSIVE InvestPotAfter(_, _, _)
InvestPotAfter(t, rInv, k) ==
  IF k = 0 THEN 0
  ELSE InvestmentLedgerStep(InvestPotAfter(t, rInv, k - 1), rInv, t.O).pot

RECURSIVE OverpayPotAfter(_, _, _)
OverpayPotAfter(t, rInv, k) ==
  IF k = 0 THEN 0
  ELSE InvestmentLedgerStep(OverpayPotAfter(t, rInv, k - 1), rInv,
                            IF k <= t.M THEN 0 ELSE t.R + t.O).pot

\* mutants of TSPoint: the debt left out of the wealth; the growth recorded
\* as the contribution
TSPoint_WealthIgnoresDebt(month, s, payment, inv) ==
  [month |-> month, balance |-> s.balance, interest |-> s.interest,
   payment |-> payment, investPot |-> inv.pot, investContrib |-> inv.contrib,
   investGrowth |-> inv.growth, wealth |-> inv.pot]

TSPoint_ContribFromGrowth(month, s, payment, inv) ==
  [month |-> month, balance |-> s.balance, interest |-> s.interest,
   payment |-> payment, investPot |-> inv.pot, investContrib |-> inv.growth,
   investGrowth |-> inv.growth, wealth |-> inv.pot - s.balance]

\* mutant of TSPoint: the payment is recorded net of the interest
TSPoint_PaymentNetOfInterest(month, s, payment, inv) ==
  [month |-> month, balance |-> s.balance, interest |-> s.interest,
   payment |-> payment - s.interest, investPot |-> inv.pot,
   investContrib |-> inv.contrib, investGrowth |-> inv.growth,
   wealth |-> inv.pot - s.balance]

\* a LedgerPoint of one of the four schedules
TSPoint(month, s, payment, inv) ==
  [month |-> month, balance |-> s.balance, interest |-> s.interest,
   payment |-> payment, investPot |-> inv.pot, investContrib |-> inv.contrib,
   investGrowth |-> inv.growth, wealth |-> inv.pot - s.balance]

NoInvestment == [pot |-> 0, contrib |-> 0, growth |-> 0]

NoTS == [den |-> 1, P0 |-> 0, N |-> 0, O |-> 0, R |-> 0, r |-> 0, rInv |-> 0,
         month |-> 1, M |-> 0,
         baseLoan |-> 0, baseInterest |-> 0, baseLast |-> NoLedgerPoint,
         opLoan |-> 0, overpayInterest |-> 0, overpaySimpleLast |-> NoLedgerPoint,
         investDebt |-> 0, investPot |-> 0, investInt |-> 0,
         investLast |-> NoLedgerPoint,
         overpayDebt |-> 0, overpayPot |-> 0, overpayIntFair |-> 0,
         overpayLast |-> NoLedgerPoint,
         solver |-> NoSolver, breakEvenAnnualReturnPercent |-> Null]

\* the locals of the facade after validation, in units of 1/den mill
TSStart(in) ==
  LET N   == in.remainingTermMonths \div 2
      pay == RequiredPayment(in.outstandingBalance, N, Percent(in.aprPercent))
      den == pay[2]
      P0  == in.outstandingBalance * den
  IN [NoTS EXCEPT !.den = den, !.P0 = P0, !.N = N,
                  !.O = in.monthlyOverpayment * den,
                  !.R = pay[1],
                  !.r = AnnualToMonthlyRate(Percent(in.aprPercent)),
                  !.rInv = AnnualToMonthlyRate(Percent(in.expectedAnnualReturnPercent)),
                  !.baseLoan = Max(0, P0), !.opLoan = Max(0, P0),
                  !.investDebt = Max(0, P0), !.overpayDebt = Max(0, P0)]

\* ------------------------------------------------ breakEvenAnnualReturn
TSBreakEvenHi      == 50
TSBisectIterations == 80
\* Math.abs(f) < 1e-6: a millionth of a pound is one part in MicroPerMill of
\* a mill
MicroPerMill       == 1000

\* contrib * ((1 + rMonthly)^months - 1) / rMonthly, the sum of contrib *
\* (1 + rMonthly)^k for k < months, for months >= 1
RECURSIVE Annuity(_, _, _)
Annuity(contrib, months, rMonthly) ==
  IF months = 1 THEN contrib
  ELSE Scale(Annuity(contrib, months - 1, rMonthly), RateUnit + rMonthly) + contrib

\* mutant of FutureValueStream: at a rate of 0 one contribution is counted
FutureValueStream_OneContribution(contrib, months, rMonthly) ==
  IF months <= 0 \/ contrib <= 0 THEN 0
  ELSE IF rMonthly = 0 THEN contrib
  ELSE Annuity(contrib, months, rMonthly)

\* futureValueStream(contrib, months, rMonthly)
FutureValueStream(contrib, months, rMonthly) ==
  IF months <= 0 \/ contrib <= 0 THEN 0
  ELSE IF rMonthly = 0 THEN contrib * months
  ELSE Annuity(contrib, months, rMonthly)

\* mutant of FinalPotsAtAnnual: the freed payment is invested from month M
FinalPotsAtAnnual_InvestsFromM(t, rAnnualPercent) ==
  LET m == AnnualToMonthlyRate(rAnnualPercent)
  IN [potA |-> FutureValueStream(t.O, t.N, m),
      potB |-> FutureValueStream(t.R + t.O, t.N - t.M + 1, m)]

\* finalPotsAtAnnual(rAnnualPercent), for the locals t of the facade
FinalPotsAtAnnual(t, rAnnualPercent) ==
  LET m == AnnualToMonthlyRate(rAnnualPercent)
  IN [potA |-> FutureValueStream(t.O, t.N, m),
      potB |-> FutureValueStream(t.R + t.O, t.N - t.M, m)]

\* finalPotsAtAnnual(a).potB - finalPotsAtAnnual(a).potA
TSDeltaAt(t, rAnnualPercent) ==
  FinalPotsAtAnnual(t, rAnnualPercent).potB - FinalPotsAtAnnual(t, rAnnualPercent).potA

\* Math.abs(f) < 1e-6, f in units of 1/den mill
TSWithinTolerance(t, f) == Abs(f) <= (t.den - 1) \div MicroPerMill

\* breakEvenAnnualReturn up to its loop
TSBreakEvenStart(t) ==
  LET lo  == 0
      hi  == TSBreakEvenHi * PercentUnit
      fLo == TSDeltaAt(t, <<0, 1>>)
      fHi == TSDeltaAt(t, <<hi, PercentUnit>>)
  IN IF TSWithinTolerance(t, fLo)
       THEN [NoSolver EXCEPT !.fLo = fLo, !.lo = lo, !.hi = hi,
                             !.returned = TRUE, !.result = 0]
     ELSE IF Sign(fLo) * Sign(fHi) > 0
       THEN [NoSolver EXCEPT !.fLo = fLo, !.fHi = fHi, !.lo = lo, !.hi = hi,
                             !.returned = TRUE, !.result = Null]
     ELSE [NoSolver EXCEPT !.fLo = fLo, !.fHi = fHi, !.lo = lo, !.hi = hi]

\* mutant of TSBisectStep: the half without the sign change is kept
TSBisectStep_KeepsOtherHalf(t, sv) ==
  LET mid == (sv.lo + sv.hi) \div 2
      fm  == TSDeltaAt(t, <<mid, PercentUnit>>)
  IN IF TSWithinTolerance(t, fm)
       THEN [sv EXCEPT !.returned = TRUE, !.result = mid]
     ELSE IF Sign(sv.fLo) * Sign(fm) <= 0
       THEN [sv EXCEPT !.lo = mid, !.i = @ + 1]
     ELSE [sv EXCEPT !.hi = mid, !.i = @ + 1]

\* one iteration of the loop of breakEvenAnnualReturn
TSBisectStep(t, sv) ==
  LET mid == (sv.lo + sv.hi) \div 2
      fm  == TSDeltaAt(t, <<mid, PercentUnit>>)
  IN IF TSWithinTolerance(t, fm)
       THEN [sv EXCEPT !.returned = TRUE, !.result = mid]
     ELSE IF Sign(sv.fLo) * Sign(fm) <= 0
       THEN [sv EXCEPT !.hi = mid, !.i = @ + 1]
     ELSE [sv EXCEPT !.lo = mid, !.i = @ + 1]

\* the properties of the fair block of the object returned by index.ts
TSFairKeys == {"investPath", "overpayPath", "breakEvenAnnualReturnPercent",
               "atN"}

TSSmallInputs == [outstandingBalance          : DLBalanceInputs,
                  remainingTermMonths         : TermInputs,
                  aprPercent                  : DLAprInputs,
                  monthlyOverpayment          : DLOverpayInputs,
                  expectedAnnualReturnPercent : {NaN, -5, 0, 409500}]

\* 7.00 at 409500% over 3 months (required payment 8.00) overpaid by 3.75
\* a month, and 700.00 (required payment 800.00) overpaid by 389.00: the
\* pots are level at a return near 67% and near 25%
TSPoundsInputs ==
  {[outstandingBalance          |-> in[1],
    remainingTermMonths         |-> 6,
    aprPercent                  |-> 409500,
    monthlyOverpayment          |-> in[2],
    expectedAnnualReturnPercent |-> 0] :
     in \in {<<7000, 3750>>, <<700000, 389000>>}}

TSInputs == TSSmallInputs \cup TSPoundsInputs

\* ------------------------------------------------------------------- state
VARIABLES
  pc,        \* position of the running call: "idle", "rj_base", "rj_over", "done", "error"
  fn,        \* the entry point called: "rj", or "none" when idle
  input,     \* the argument of the running call
  loan,      \* the Loan built from it
  sim,       \* locals of the running simulate()
  base,      \* result of the baseline simulation
  withOver,  \* result of the with-overpayment simulation
  result,    \* interestSaved / monthsSaved of the returned journey
  err,       \* message of the error thrown, "" if none
  dl,        \* dl: locals and results of calculateDualLedgerJourney
  ledger,    \* dl: locals of the running simulateLoan()
  paths,     \* dl: locals of the running simulateApplesPaths()
  ts,        \* ts: locals and results of calculateDualLedgerJourney (index.ts)
  engine,             \* web: "null" until the engine module is imported
  recomputeScheduled, \* web: the flag of scheduleRecompute
  microtasks,         \* web: recompute callbacks waiting in the microtask queue
  dom,                \* web: the form's values, as readInputs() reads them
  eventsSince         \* web: input/change events handled since the last
                      \*      recompute microtask ran

rjVars == <<loan, sim, base, withOver, result>>
dlVars == <<dl, ledger, paths>>
uiVars == <<engine, recomputeScheduled, microtasks, dom, eventsSince>>
vars == <<pc, fn, input, loan, sim, base, withOver, result, err, dl, ledger, paths, ts,
          engine, recomputeScheduled, microtasks, dom, eventsSince>>

NoJourney == [interestSaved |-> 0, monthsSaved |-> 0]

Init ==
  /\ pc = "idle"
  /\ fn = "none"
  /\ input = NoInput
  /\ loan = NoLoan
  /\ sim = NoSim
  /\ base = NoResult
  /\ withOver = NoResult
  /\ result = NoJourney
  /\ err = ""
  /\ dl = NoDL
  /\ ledger = NoLedger
  /\ paths = NoPaths
  /\ ts = NoTS
  /\ engine = "null"
  /\ recomputeScheduled = FALSE
  /\ microtasks = 0
  /\ dom = NoInput
  /\ eventsSince = 0

\* ------------------------------------------- calculateRepaymentJourney (rj)
\* mutants of RJBad: the term not checked for being an integer; a balance
\* of zero rejected
RJBad_TermNotInteger(in) ==
  \/ ~IsFinite(in.outstandingBalance) \/ in.outstandingBalance < 0
  \/ ~IsFinite(in.aprPercent) \/ in.aprPercent < 0
  \/ ~IsFinite(in.remainingTermMonths) \/ in.remainingTermMonths < 2
  \/ ~IsFinite(in.monthlyOverpayment) \/ in.monthlyOverpayment < 0

RJBad_ZeroBalance(in) ==
  \/ ~IsFinite(in.outstandingBalance) \/ in.outstandingBalance <= 0
  \/ ~IsFinite(in.aprPercent) \/ in.aprPercent < 0
  \/ ~IsIntegerHalves(in.remainingTermMonths) \/ in.remainingTermMonths < 2
  \/ ~IsFinite(in.monthlyOverpayment) \/ in.monthlyOverpayment < 0

\* the validation at the head of the facade
RJBad(in) ==
  \/ ~IsFinite(in.outstandingBalance) \/ in.outstandingBalance < 0
  \/ ~IsFinite(in.aprPercent) \/ in.aprPercent < 0
  \/ ~IsIntegerHalves(in.remainingTermMonths) \/ in.remainingTermMonths < 2
  \/ ~IsFinite(in.monthlyOverpayment) \/ in.monthlyOverpayment < 0

\* new Loan(...), with the value its requiredMonthlyPayment() returns
RJLoan(in, pay) ==
  [principal       |-> FromPounds(in.outstandingBalance),
   remainingMonths |-> in.remainingTermMonths \div 2,
   aprPercent      |-> in.aprPercent,
   requiredPay     |-> pay]

\* mutant of RJCall: a loan built by an earlier call is used again
RJCall_LoanKept(in) ==
  /\ pc = "idle"
  /\ fn' = "rj"
  /\ input' = in
  /\ IF RJBad(in)
     THEN /\ pc' = "error"
          /\ err' = "Invalid inputs"
          /\ UNCHANGED <<loan, sim, base, withOver, result, dlVars, ts>>
     ELSE /\ pc' = "rj_base"
          /\ \E pay \in RequiredMonthlyPaymentOutcomes(
                          FromPounds(in.outstandingBalance),
                          in.remainingTermMonths \div 2, in.aprPercent) :
               LET l == IF loan = NoLoan THEN RJLoan(in, pay) ELSE loan
               IN /\ loan' = l
                  /\ sim' = SimStart(l, FromPounds(0))
          /\ UNCHANGED <<base, withOver, result, err, dlVars, ts>>

\* entry: validate, build the loan, enter the baseline simulation
RJCall(in) ==
  /\ pc = "idle"
  /\ fn' = "rj"
  /\ input' = in
  /\ IF RJBad(in)
     THEN /\ pc' = "error"
          /\ err' = "Invalid inputs"
          /\ UNCHANGED <<loan, sim, base, withOver, result, dlVars, ts>>
     ELSE /\ pc' = "rj_base"
          /\ \E pay \in RequiredMonthlyPaymentOutcomes(
                          FromPounds(in.outstandingBalance),
                          in.remainingTermMonths \div 2, in.aprPercent) :
               /\ loan' = RJLoan(in, pay)
               /\ sim' = SimStart(RJLoan(in, pay), FromPounds(0))
          /\ UNCHANGED <<base, withOver, result, err, dlVars, ts>>

\* while (!balance.isZero() && month < MAX_MONTHS)
LoopGuard(l, s) == s.balance # 0 /\ s.month < MAX_MONTHS(l)

\* one iteration of the loop of simulate()
RJSimStep ==
  /\ pc \in {"rj_base", "rj_over"}
  /\ LoopGuard(loan, sim)
  /\ LET e == LoopBody(loan, sim.balance, sim.overpay)
     IN sim' = [sim EXCEPT !.balance = e.closingPence,
                           !.month = @ + 1,
                           !.totalInterest = @ + e.interestPence,
                           !.last = e,
                           !.principalSum = @ + e.principal]
  /\ UNCHANGED <<pc, fn, input, loan, base, withOver, result, err, dlVars, ts>>
  /\ UNCHANGED uiVars

\* the journey assembled from the two simulations
Journey(b, w) ==
  [interestSaved |-> Max(0, b.totalInterest - w.totalInterest),
   monthsSaved   |-> Max(0, b.months - w.months)]

\* mutant of RJBaseReturn: the second simulation carries on from the balance
\* the first one left behind
RJBaseReturn_BalanceShared ==
  /\ pc = "rj_base"
  /\ ~LoopGuard(loan, sim)
  /\ base' = SimResult(sim)
  /\ sim' = [SimStart(loan, FromPounds(input.monthlyOverpayment))
               EXCEPT !.balance = sim.balance]
  /\ pc' = "rj_over"
  /\ UNCHANGED <<fn, input, loan, withOver, result, err, dlVars, ts>>
  /\ UNCHANGED uiVars

\* the baseline simulation returns; the with-overpayment simulation starts
\* (simulate() throws on a negative overpayment)
RJBaseReturn ==
  /\ pc = "rj_base"
  /\ ~LoopGuard(loan, sim)
  /\ base' = SimResult(sim)
  /\ IF FromPounds(input.monthlyOverpayment) < 0
     THEN /\ pc' = "error"
          /\ err' = "monthlyOverpayment cannot be negative"
          /\ UNCHANGED sim
     ELSE /\ pc' = "rj_over"
          /\ sim' = SimStart(loan, FromPounds(input.monthlyOverpayment))
          /\ UNCHANGED err
  /\ UNCHANGED <<fn, input, loan, withOver, result, dlVars, ts>>
  /\ UNCHANGED uiVars

\* the with-overpayment simulation returns; the facade returns the journey
RJOverReturn ==
  /\ pc = "rj_over"
  /\ ~LoopGuard(loan, sim)
  /\ withOver' = SimResult(sim)
  /\ result' = Journey(base, SimResult(sim))
  /\ pc' = "done"
  /\ UNCHANGED <<fn, input, loan, sim, base, err, dlVars, ts>>
  /\ UNCHANGED uiVars

\* ---------------------------------- calculateDualLedgerJourney (engine.js)
\* the validation at the head of the facade: the message thrown, "" if none
DLInvalid(in) ==
  IF ~IsFinite(in.outstandingBalance) \/ in.outstandingBalance <= 0
    THEN "Outstanding balance must be > 0."
  ELSE IF ~IsIntegerHalves(in.remainingTermMonths) \/ in.remainingTermMonths < 2
    THEN "Remaining term must be >= 1."
  ELSE IF ~IsFinite(in.aprPercent) \/ in.aprPercent < 0
    THEN "APR must be >= 0."
  ELSE IF ~IsFinite(in.currentMonthlyPayment) \/ in.currentMonthlyPayment <= 0
    THEN "Current monthly payment must be > 0."
  ELSE IF ~IsFinite(in.monthlyOverpayment) \/ in.monthlyOverpayment < 0
    THEN "Monthly overpayment must be >= 0."
  ELSE ""

BalanceWillIncrease ==
  "Current payment is less than the first month's interest. The loan balance will increase."
BalanceWillGrow == "Payment is less than interest. Loan balance will grow."

\* R < firstMonthInterest
DLPaymentBelowInterest(in) ==
  in.currentMonthlyPayment
    < Scale(in.outstandingBalance, MonthlyRateFromAPR(Percent(in.aprPercent)))

\* entry: validate, reject a payment below the first month's interest, enter
\* the baseline simulateLoan
DLCall(in) ==
  /\ pc = "idle"
  /\ fn' = "dl"
  /\ input' = in
  /\ UNCHANGED <<rjVars, paths, ts>>
  /\ IF DLInvalid(in) # ""
     THEN /\ pc' = "error"
          /\ err' = DLInvalid(in)
          /\ UNCHANGED <<dl, ledger>>
     ELSE IF DLPaymentBelowInterest(in)
     THEN /\ pc' = "error"
          /\ err' = BalanceWillIncrease
          /\ UNCHANGED <<dl, ledger>>
     ELSE /\ pc' = "dl_base"
          /\ err' = ""
          /\ dl' = [NoDL EXCEPT !.P = in.outstandingBalance,
                                !.N = in.remainingTermMonths \div 2,
                                !.O = in.monthlyOverpayment,
                                !.R = in.currentMonthlyPayment,
                                !.rLoan_m = MonthlyRateFromAPR(Percent(in.aprPercent))]
          /\ ledger' = LedgerStart(in.outstandingBalance,
                                   MonthlyRateFromAPR(Percent(in.aprPercent)),
                                   in.currentMonthlyPayment,
                                   in.remainingTermMonths \div 2)

\* one iteration of the loop of simulateLoan, baseline or with overpayment
DLLedgerStep ==
  /\ pc \in {"dl_base", "dl_over"}
  /\ LedgerGuard(ledger)
  /\ UNCHANGED <<fn, input, rjVars, dl, paths, ts>>
  /\ IF LedgerThrows(ledger)
     THEN /\ pc' = "error"
          /\ err' = BalanceWillGrow
          /\ UNCHANGED ledger
     ELSE /\ ledger' = LedgerStep(ledger)
          /\ UNCHANGED <<pc, err>>
  /\ UNCHANGED uiVars

\* the baseline simulateLoan returns; the one with overpayment starts
DLBaseReturn ==
  /\ pc = "dl_base"
  /\ ~LedgerGuard(ledger)
  /\ dl' = [dl EXCEPT !.baseline = LedgerResult(ledger)]
  /\ ledger' = LedgerStart(dl.P, dl.rLoan_m, dl.R + dl.O, dl.N)
  /\ pc' = "dl_over"
  /\ UNCHANGED <<fn, input, rjVars, err, paths, ts>>
  /\ UNCHANGED uiVars

\* mutants of DLOverReturn: the remaining term taken as the comparison
\* horizon; the horizon passed as the payoff month M
DLOverReturn_TermAsHorizon ==
  /\ pc = "dl_over"
  /\ ~LedgerGuard(ledger)
  /\ LET w == LedgerResult(ledger)
     IN /\ dl' = [dl EXCEPT
                    !.withOverpay = w,
                    !.monthsSaved = Max(0, dl.baseline.months - w.months),
                    !.interestSaved =
                       Max(0, dl.baseline.totalInterest - w.totalInterest)]
        /\ paths' = PathsStart(dl.P, dl.N, dl.rLoan_m, dl.R,
                               dl.O, w.months,
                               Percent(input.expectedAnnualReturnPercent))
  /\ pc' = "dl_fair"
  /\ UNCHANGED <<fn, input, rjVars, err, ledger, ts>>
  /\ UNCHANGED uiVars

DLOverReturn_HorizonAsPayoff ==
  /\ pc = "dl_over"
  /\ ~LedgerGuard(ledger)
  /\ LET w == LedgerResult(ledger)
     IN /\ dl' = [dl EXCEPT
                    !.withOverpay = w,
                    !.monthsSaved = Max(0, dl.baseline.months - w.months),
                    !.interestSaved =
                       Max(0, dl.baseline.totalInterest - w.totalInterest)]
        /\ paths' = PathsStart(dl.P, dl.baseline.months, dl.rLoan_m, dl.R,
                               dl.O, dl.baseline.months,
                               Percent(input.expectedAnnualReturnPercent))
  /\ pc' = "dl_fair"
  /\ UNCHANGED <<fn, input, rjVars, err, ledger, ts>>
  /\ UNCHANGED uiVars

\* the simulateLoan with overpayment returns; monthsSaved and interestSaved
\* are taken and simulateApplesPaths starts over the baseline's months
DLOverReturn ==
  /\ pc = "dl_over"
  /\ ~LedgerGuard(ledger)
  /\ LET w == LedgerResult(ledger)
     IN /\ dl' = [dl EXCEPT
                    !.withOverpay = w,
                    !.monthsSaved = Max(0, dl.baseline.months - w.months),
                    !.interestSaved =
                       Max(0, dl.baseline.totalInterest - w.totalInterest)]
        /\ paths' = PathsStart(dl.P, dl.baseline.months, dl.rLoan_m, dl.R,
                               dl.O, w.months,
                               Percent(input.expectedAnnualReturnPercent))
  /\ pc' = "dl_fair"
  /\ UNCHANGED <<fn, input, rjVars, err, ledger, ts>>
  /\ UNCHANGED uiVars

\* one iteration of the loop of simulateApplesPaths
DLPathsStep ==
  /\ pc = "dl_fair"
  /\ paths.t <= paths.N
  /\ paths' = PathsStep(paths)
  /\ UNCHANGED <<pc, fn, input, rjVars, err, dl, ledger, ts>>
  /\ UNCHANGED uiVars

\* the arguments {P, N, rLoan_m, R, O, M} of computeBreakEvenReturn
BreakEvenArgs ==
  [P |-> dl.P, N |-> dl.baseline.months, rLoan_m |-> dl.rLoan_m, R |-> dl.R,
   O |-> dl.O, M |-> dl.withOverpay.months]

\* simulateApplesPaths returns; computeBreakEvenReturn runs up to its loop
DLFairReturn ==
  /\ pc = "dl_fair"
  /\ paths.t > paths.N
  /\ dl' = [dl EXCEPT !.fair = PathsResult(paths),
                      !.solver = BreakEvenStart(BreakEvenArgs)]
  /\ pc' = "dl_bisect"
  /\ UNCHANGED <<fn, input, rjVars, err, ledger, paths, ts>>
  /\ UNCHANGED uiVars

\* one iteration of the bisection loop of computeBreakEvenReturn
DLBisectStep ==
  /\ pc = "dl_bisect"
  /\ ~dl.solver.returned
  /\ dl.solver.i < BisectIterations
  /\ dl' = [dl EXCEPT !.solver = BisectStep(BreakEvenArgs, dl.solver)]
  /\ UNCHANGED <<pc, fn, input, rjVars, err, ledger, paths, ts>>
  /\ UNCHANGED uiVars

\* the bisection loop runs out
DLBisectEnd ==
  /\ pc = "dl_bisect"
  /\ ~dl.solver.returned
  /\ dl.solver.i >= BisectIterations
  /\ dl' = [dl EXCEPT !.solver = BisectEnd(dl.solver)]
  /\ UNCHANGED <<pc, fn, input, rjVars, err, ledger, paths, ts>>
  /\ UNCHANGED uiVars

\* computeBreakEvenReturn has returned; the crossover month is found and
\* the facade returns its result
DLReturn ==
  /\ pc = "dl_bisect"
  /\ dl.solver.returned
  /\ dl' = [dl EXCEPT !.breakEvenAnnualReturnPercent = dl.solver.result,
                      !.deltaWealthByMonth = paths.deltaWealth,
                      !.crossoverMonth = CrossoverMonth(paths.deltaWealth)]
  /\ pc' = "done"
  /\ UNCHANGED <<fn, input, rjVars, err, ledger, paths, ts>>
  /\ UNCHANGED uiVars

\* ---------------------------------- calculateDualLedgerJourney (index.ts)
\* the validation at the head of the facade: the message thrown, "" if none
TSInvalid(in) ==
  IF ~IsFinite(in.outstandingBalance) \/ in.outstandingBalance < 0
    THEN "Invalid outstanding balance"
  ELSE IF ~IsIntegerHalves(in.remainingTermMonths) \/ in.remainingTermMonths < 2
    THEN "Invalid remaining term"
  ELSE IF ~IsFinite(in.aprPercent) \/ in.aprPercent < 0
    THEN "Invalid APR"
  ELSE IF ~IsFinite(in.monthlyOverpayment) \/ in.monthlyOverpayment < 0
    THEN "Invalid overpayment"
  ELSE IF ~IsFinite(in.expectedAnnualReturnPercent) \/ in.expectedAnnualReturnPercent < 0
    THEN "Invalid expected return"
  ELSE ""

\* entry: validate, derive R, enter the baseline loop
TSCall(in) ==
  /\ pc = "idle"
  /\ fn' = "ts"
  /\ input' = in
  /\ UNCHANGED <<rjVars, dlVars>>
  /\ IF TSInvalid(in) # ""
     THEN /\ pc' = "error"
          /\ err' = TSInvalid(in)
          /\ UNCHANGED ts
     ELSE /\ pc' = "ts_base"
          /\ err' = ""
          /\ ts' = TSStart(in)

\* 1. one iteration of the baseline loop
TSBaseStep ==
  /\ pc = "ts_base"
  /\ ts.month <= ts.N
  /\ LET s == LoanLedgerStep(ts.baseLoan, ts.r, ts.R)
     IN ts' = [ts EXCEPT !.month = @ + 1,
                         !.baseLoan = s.balance,
                         !.baseInterest = @ + s.interest,
                         !.baseLast = TSPoint(ts.month, s, ts.R, NoInvestment)]
  /\ UNCHANGED <<pc, fn, input, rjVars, dlVars, err>>
  /\ UNCHANGED uiVars

\* 2. one iteration of the simple overpayment loop, which finds M
TSOverStep ==
  /\ pc = "ts_over"
  /\ ts.month <= ts.N
  /\ LET s == LoanLedgerStep(ts.opLoan, ts.r, ts.R + ts.O)
     IN ts' = [ts EXCEPT !.month = @ + 1,
                         !.opLoan = s.balance,
                         !.overpayInterest = @ + s.interest,
                         !.overpaySimpleLast =
                            TSPoint(ts.month, s, ts.R + ts.O, NoInvestment),
                         !.M = IF s.balance <= 0 /\ ts.M = 0 THEN ts.month ELSE @]
  /\ UNCHANGED <<pc, fn, input, rjVars, dlVars, err>>
  /\ UNCHANGED uiVars

\* 3. one iteration of the fair comparison loop
TSFairStep ==
  /\ pc = "ts_fair"
  /\ ts.month <= ts.N
  /\ LET t             == ts.month
         sA            == LoanLedgerStep(ts.investDebt, ts.r, ts.R)
         invA          == InvestmentLedgerStep(ts.investPot, ts.rInv, ts.O)
         isPayingDebt  == t <= ts.M
         paymentB      == IF isPayingDebt THEN ts.R + ts.O ELSE 0
         contributionB == IF isPayingDebt THEN 0 ELSE ts.R + ts.O
         sB            == LoanLedgerStep(ts.overpayDebt, ts.r, paymentB)
         invB          == InvestmentLedgerStep(ts.overpayPot, ts.rInv, contributionB)
     IN ts' = [ts EXCEPT !.month = @ + 1,
                         !.investDebt = sA.balance,
                         !.investInt = @ + sA.interest,
                         !.investPot = invA.pot,
                         !.investLast = TSPoint(t, sA, ts.R, invA),
                         !.overpayDebt = sB.balance,
                         !.overpayIntFair = @ + sB.interest,
                         !.overpayPot = invB.pot,
                         !.overpayLast = TSPoint(t, sB, paymentB, invB)]
  /\ UNCHANGED <<pc, fn, input, rjVars, dlVars, err>>
  /\ UNCHANGED uiVars

\* a loop ends: the next one starts, and after the last the result is
\* assembled, which calls breakEvenAnnualReturn
TSLoopEnd ==
  /\ pc \in {"ts_base", "ts_over", "ts_fair"}
  /\ ts.month > ts.N
  /\ pc' = CASE pc = "ts_base" -> "ts_over"
             [] pc = "ts_over" -> "ts_fair"
             [] pc = "ts_fair" -> "ts_bisect"
  /\ ts' = [ts EXCEPT !.month = IF pc = "ts_fair" THEN @ ELSE 1,
                      !.M = IF pc = "ts_over" /\ ts.M = 0 THEN ts.N ELSE @,
                      !.solver = IF pc = "ts_fair" THEN TSBreakEvenStart(ts)
                                 ELSE @]
  /\ UNCHANGED <<fn, input, rjVars, dlVars, err>>
  /\ UNCHANGED uiVars

\* one iteration of the loop of breakEvenAnnualReturn
TSBisect ==
  /\ pc = "ts_bisect"
  /\ ~ts.solver.returned
  /\ ts.solver.i < TSBisectIterations
  /\ ts' = [ts EXCEPT !.solver = TSBisectStep(ts, ts.solver)]
  /\ UNCHANGED <<pc, fn, input, rjVars, dlVars, err>>
  /\ UNCHANGED uiVars

\* the loop runs out: return (lo + hi) / 2
TSBisectEnd ==
  /\ pc = "ts_bisect"
  /\ ~ts.solver.returned
  /\ ts.solver.i >= TSBisectIterations
  /\ ts' = [ts EXCEPT !.solver = BisectEnd(ts.solver)]
  /\ UNCHANGED <<pc, fn, input, rjVars, dlVars, err>>
  /\ UNCHANGED uiVars

\* breakEvenAnnualReturn has returned; the facade returns its result
TSReturn ==
  /\ pc = "ts_bisect"
  /\ ts.solver.returned
  /\ ts' = [ts EXCEPT !.breakEvenAnnualReturnPercent = ts.solver.result]
  /\ pc' = "done"
  /\ UNCHANGED <<fn, input, rjVars, dlVars, err>>
  /\ UNCHANGED uiVars

\* the caller takes the outcome; the next call starts from scratch
NextCall ==
  /\ pc \in {"done", "error"}
  /\ pc' = "idle"
  /\ fn' = "none"
  /\ input' = NoInput
  /\ loan' = NoLoan
  /\ sim' = NoSim
  /\ base' = NoResult
  /\ withOver' = NoResult
  /\ result' = NoJourney
  /\ err' = ""
  /\ dl' = NoDL
  /\ ledger' = NoLedger
  /\ paths' = NoPaths
  /\ ts' = NoTS
  /\ UNCHANGED uiVars

\* the caller (recompute, or a test) calls an entry point with some input
CallRepaymentJourney ==
  /\ pc = "idle" /\ \E in \in RJInputs : RJCall(in)
  /\ UNCHANGED uiVars
CallDualLedgerJourney ==
  /\ pc = "idle" /\ \E in \in DLInputs : DLCall(in)
  /\ UNCHANGED uiVars
CallDualLedgerJourneyTS ==
  /\ pc = "idle" /\ \E in \in TSInputs : TSCall(in)
  /\ UNCHANGED uiVars

Next ==
  \/ CallRepaymentJourney
  \/ RJSimStep
  \/ RJBaseReturn
  \/ RJOverReturn
  \/ CallDualLedgerJourney
  \/ DLLedgerStep
  \/ DLBaseReturn
  \/ DLOverReturn
  \/ DLPathsStep
  \/ DLFairReturn
  \/ DLBisectStep
  \/ DLBisectEnd
  \/ DLReturn
  \/ CallDualLedgerJourneyTS
  \/ TSBaseStep
  \/ TSOverStep
  \/ TSFairStep
  \/ TSLoopEnd
  \/ TSBisect
  \/ TSBisectEnd
  \/ TSReturn
  \/ NextCall

Spec == Init /\ [][Next]_vars

\* ------------------------------- the entry points as functions of the input
\* one iteration of the loop of simulate() on its locals s
SimAdvance(l, s) ==
  LET e == LoopBody(l, s.balance, s.overpay)
  IN [s EXCEPT !.balance = e.closingPence,
               !.month = @ + 1,
               !.totalInterest = @ + e.interestPence,
               !.last = e,
               !.principalSum = @ + e.principal]

RECURSIVE SimRun(_, _)
SimRun(l, s) == IF LoopGuard(l, s) THEN SimRun(l, SimAdvance(l, s)) ELSE s

\* new OverpaymentSimulator(loan).simulate(monthlyOverpayment)
Simulate(l, monthlyOverpayment) ==
  SimResult(SimRun(l, SimStart(l, monthlyOverpayment)))

\* the outcome of a call that throws
Threw(message) == [threw |-> TRUE, err |-> message]

\* calculateRepaymentJourney(in), pay being what requiredMonthlyPayment()
\* returns for its loan
CalculateRepaymentJourney(in, pay) ==
  IF RJBad(in) THEN Threw("Invalid inputs")
  ELSE IF FromPounds(in.monthlyOverpayment) < 0
    THEN Threw("monthlyOverpayment cannot be negative")
  ELSE LET l == RJLoan(in, pay)
           b == Simulate(l, FromPounds(0))
           w == Simulate(l, FromPounds(in.monthlyOverpayment))
       IN [threw |-> FALSE, err |-> "", base |-> b, withOver |-> w,
           result |-> Journey(b, w)]

\* simulateLoan(balanceStart, r_m, payment, maxMonths)
RECURSIVE LedgerRun(_)
LedgerRun(l) ==
  IF LedgerGuard(l) /\ ~LedgerThrows(l) THEN LedgerRun(LedgerStep(l)) ELSE l

SimulateLoan(balanceStart, r_m, payment, maxMonths) ==
  LET l == LedgerRun(LedgerStart(balanceStart, r_m, payment, maxMonths))
  IN [threw |-> LedgerGuard(l) /\ LedgerThrows(l), value |-> LedgerResult(l)]

\* at most k iterations of the bisection loop of computeBreakEvenReturn
RECURSIVE BisectRun(_, _, _)
BisectRun(d, sv, k) ==
  IF k = 0 \/ sv.returned THEN sv
  ELSE IF k = 1 THEN BisectStep(d, sv)
  ELSE BisectRun(d, BisectRun(d, sv, k \div 2), k - k \div 2)

\* computeBreakEvenReturn({P, N, rLoan_m, R, O, M})
ComputeBreakEvenReturn(d) ==
  LET sv == BisectRun(d, BreakEvenStart(d), BisectIterations)
  IN IF sv.returned THEN sv.result ELSE BisectEnd(sv).result

\* calculateDualLedgerJourney(in) of engine.js
CalculateDualLedgerJourney(in) ==
  IF DLInvalid(in) # "" THEN Threw(DLInvalid(in))
  ELSE IF DLPaymentBelowInterest(in) THEN Threw(BalanceWillIncrease)
  ELSE
    LET P == in.outstandingBalance
        N == in.remainingTermMonths \div 2
        O == in.monthlyOverpayment
        R == in.currentMonthlyPayment
        r == MonthlyRateFromAPR(Percent(in.aprPercent))
        b == SimulateLoan(P, r, R, N)
        w == SimulateLoan(P, r, R + O, N)
        p == PathsRun(PathsStart(P, b.value.months, r, R, O, w.value.months,
                                 Percent(in.expectedAnnualReturnPercent)),
                      b.value.months)
    IN IF b.threw \/ w.threw THEN Threw(BalanceWillGrow)
       ELSE [threw |-> FALSE, err |-> "",
             baseline |-> b.value, withOverpay |-> w.value,
             interestSaved |->
                Max(0, b.value.totalInterest - w.value.totalInterest),
             monthsSaved |-> Max(0, b.value.months - w.value.months),
             fair |-> PathsResult(p),
             deltaWealthByMonth |-> p.deltaWealth,
             crossoverMonth |-> CrossoverMonth(p.deltaWealth),
             breakEvenAnnualReturnPercent |->
                ComputeBreakEvenReturn(
                  [P |-> P, N |-> b.value.months, rLoan_m |-> r, R |-> R,
                   O |-> O, M |-> w.value.months])]

\* a LoanLedger opened at bal0 after k steps paying pay[1], ..., pay[k]: its
\* balance, the interest summed, and the first step that left no balance
RECURSIVE LoanAfter(_, _, _, _)
LoanAfter(bal0, r, pay, k) ==
  IF k = 0 THEN [balance |-> Max(0, bal0), interest |-> 0, cleared |-> 0]
  ELSE LET b == LoanAfter(bal0, r, pay, k - 1)
           s == LoanLedgerStep(b.balance, r, pay[k])
       IN [balance  |-> s.balance,
           interest |-> b.interest + s.interest,
           cleared  |-> IF s.balance <= 0 /\ b.cleared = 0 THEN k
                        ELSE b.cleared]

\* at most k iterations of the loop of breakEvenAnnualReturn
RECURSIVE TSBisectRun(_, _, _)
TSBisectRun(t, sv, k) ==
  IF k = 0 \/ sv.returned THEN sv
  ELSE IF k = 1 THEN TSBisectStep(t, sv)
  ELSE TSBisectRun(t, TSBisectRun(t, sv, k \div 2), k - k \div 2)

\* breakEvenAnnualReturn(), for the locals t of the facade
BreakEvenAnnualReturn(t) ==
  LET sv == TSBisectRun(t, TSBreakEvenStart(t), TSBisectIterations)
  IN IF sv.returned THEN sv.result ELSE BisectEnd(sv).result

\* calculateDualLedgerJourney(in) of index.ts, in units of 1/den mill
CalculateDualLedgerJourneyTS(in) ==
  IF TSInvalid(in) # "" THEN Threw(TSInvalid(in))
  ELSE
    LET t0   == TSStart(in)
        N    == t0.N
        sBase == LoanAfter(t0.P0, t0.r, [k \in 1..N |-> t0.R], N)
        sOver == LoanAfter(t0.P0, t0.r, [k \in 1..N |-> t0.R + t0.O], N)
        M    == IF sOver.cleared = 0 THEN N ELSE sOver.cleared
        t    == [t0 EXCEPT !.M = M]
        invA == LoanAfter(t0.P0, t0.r, [k \in 1..N |-> t0.R], N)
        invB == LoanAfter(t0.P0, t0.r,
                          [k \in 1..N |-> IF k <= M THEN t0.R + t0.O ELSE 0], N)
        potA == InvestPotAfter(t, t0.rInv, N)
        potB == OverpayPotAfter(t, t0.rInv, N)
    IN [threw |-> FALSE, err |-> "",
        den |-> t0.den,
        baseline    |-> [months |-> N, totalInterest |-> sBase.interest],
        withOverpay |-> [months |-> M, totalInterest |-> sOver.interest],
        interestSaved |-> sBase.interest - sOver.interest,
        monthsSaved |-> N - M,
        requiredMonthlyPayment |-> t0.R,
        fair |-> [investPath  |-> [months |-> N, totalInterest |-> invA.interest,
                                   finalPot |-> potA,
                                   finalWealth |-> potA - invA.balance],
                  overpayPath |-> [months |-> N, totalInterest |-> invB.interest,
                                   finalPot |-> potB,
                                   finalWealth |-> potB - invB.balance],
                  breakEvenAnnualReturnPercent |-> BreakEvenAnnualReturn(t),
                  atN |-> [investPot |-> potA, overpayPot |-> potB,
                           delta |-> potB - potA]]]

\* ------------------------------------------- calls that follow other calls
\* A second specification: nothing is cleared between two calls, so that a
\* call finds in every variable what the calls before it left there.
RJRepeatInputs ==
  {[outstandingBalance |-> in[1], remainingTermMonths |-> in[2],
    aprPercent |-> in[3], monthlyOverpayment |-> in[4]] :
     in \in {<<100, 4, 0, 10>>, <<120, 6, 300, 0>>, <<120, 6, 300, 10>>,
             <<NaN, 4, 0, 0>>}}

DLRepeatInputs ==
  DLPoundsInputs \cup
  {[outstandingBalance |-> in[1], remainingTermMonths |-> 4,
    aprPercent |-> in[2], currentMonthlyPayment |-> in[3],
    monthlyOverpayment |-> in[4], expectedAnnualReturnPercent |-> in[5]] :
     in \in {<<200, 0, 50, 50, 409500>>, <<200, 409500, 250, 0, 0>>,
             <<200, 409500, 100, 0, 0>>, <<0, 0, 50, 0, 0>>}}

TSRepeatInputs ==
  TSPoundsInputs \cup
  {[outstandingBalance |-> in[1], remainingTermMonths |-> in[2],
    aprPercent |-> in[3], monthlyOverpayment |-> in[4],
    expectedAnnualReturnPercent |-> in[5]] :
     in \in {<<200, 6, 0, 50, 409500>>, <<100, 4, 409500, 0, 0>>,
             <<100, 1, 0, 0, 0>>}}

CallRepaymentJourneyAgain ==
  /\ pc = "idle" /\ \E in \in RJRepeatInputs : RJCall(in)
  /\ UNCHANGED uiVars
CallDualLedgerJourneyAgain ==
  /\ pc = "idle" /\ \E in \in DLRepeatInputs : DLCall(in)
  /\ UNCHANGED uiVars
CallDualLedgerJourneyTSAgain ==
  /\ pc = "idle" /\ \E in \in TSRepeatInputs : TSCall(in)
  /\ UNCHANGED uiVars

\* the caller takes the outcome; nothing else happens
ReturnToCaller ==
  /\ pc \in {"done", "error"}
  /\ pc' = "idle"
  /\ UNCHANGED <<fn, input, rjVars, err, dlVars, ts>>
  /\ UNCHANGED uiVars

NextRepeat ==
  \/ CallRepaymentJourneyAgain
  \/ RJSimStep
  \/ RJBaseReturn
  \/ RJOverReturn
  \/ CallDualLedgerJourneyAgain
  \/ DLLedgerStep
  \/ DLBaseReturn
  \/ DLOverReturn
  \/ DLPathsStep
  \/ DLFairReturn
  \/ DLBisectStep
  \/ DLBisectEnd
  \/ DLReturn
  \/ CallDualLedgerJourneyTSAgain
  \/ TSBaseStep
  \/ TSOverStep
  \/ TSFairStep
  \/ TSLoopEnd
  \/ TSBisect
  \/ TSBisectEnd
  \/ TSReturn
  \/ ReturnToCaller

SpecRepeat == Init /\ [][NextRepeat]_vars

\* ---------------------------------------------------- calls that must end
\* A third specification, with fairness: the inputs of the second one, and
\* loans that only the caps end: 0.01 over 3 months at 0% (required payment
\* 0.00) in main.js, 0.10 at 409500% paid 0.10 a month in engine.js.
RJCappedInputs ==
  RJRepeatInputs \cup
  {[outstandingBalance |-> 10, remainingTermMonths |-> 6, aprPercent |-> 0,
    monthlyOverpayment |-> o] : o \in {0, 10}}

DLCappedInputs ==
  DLRepeatInputs \cup
  {[outstandingBalance |-> 100, remainingTermMonths |-> 2,
    aprPercent |-> 409500, currentMonthlyPayment |-> 100,
    monthlyOverpayment |-> o, expectedAnnualReturnPercent |-> 0] :
     o \in {0, 50}}

CallRepaymentJourneyCapped ==
  /\ pc = "idle" /\ \E in \in RJCappedInputs : RJCall(in)
  /\ UNCHANGED uiVars
CallDualLedgerJourneyCapped ==
  /\ pc = "idle" /\ \E in \in DLCappedInputs : DLCall(in)
  /\ UNCHANGED uiVars

NextCapped ==
  \/ CallRepaymentJourneyCapped
  \/ RJSimStep
  \/ RJBaseReturn
  \/ RJOverReturn
  \/ CallDualLedgerJourneyCapped
  \/ DLLedgerStep
  \/ DLBaseReturn
  \/ DLOverReturn
  \/ DLPathsStep
  \/ DLFairReturn
  \/ DLBisectStep
  \/ DLBisectEnd
  \/ DLReturn
  \/ CallDualLedgerJourneyTSAgain
  \/ TSBaseStep
  \/ TSOverStep
  \/ TSFairStep
  \/ TSLoopEnd
  \/ TSBisect
  \/ TSBisectEnd
  \/ TSReturn
  \/ NextCall

\* the steps of a running call outside the break-even searches
StepOfCall ==
  \/ RJSimStep
  \/ RJBaseReturn
  \/ RJOverReturn
  \/ DLLedgerStep
  \/ DLBaseReturn
  \/ DLOverReturn
  \/ DLPathsStep
  \/ DLBisectEnd
  \/ DLReturn
  \/ TSBaseStep
  \/ TSOverStep
  \/ TSFairStep
  \/ TSBisectEnd
  \/ TSReturn

\* the steps that start or continue a break-even search
SearchStep ==
  \/ DLFairReturn
  \/ DLBisectStep
  \/ TSLoopEnd
  \/ TSBisect

\* ENABLED <<SearchStep>>_vars, written out as a predicate of the state
SearchStepEnabled ==
  \/ pc = "dl_fair" /\ paths.t > paths.N
  \/ /\ pc = "dl_bisect"
     /\ ~dl.solver.returned
     /\ dl.solver.i < BisectIterations
     /\ BisectStep(BreakEvenArgs, dl.solver) # dl.solver
  \/ pc \in {"ts_base", "ts_over", "ts_fair"} /\ ts.month > ts.N
  \/ /\ pc = "ts_bisect"
     /\ ~ts.solver.returned
     /\ ts.solver.i < TSBisectIterations
     /\ TSBisectStep(ts, ts.solver) # ts.solver

\* the code is synchronous: a call that has a next step takes it (weak
\* fairness of the steps of a call; for the search steps the fairness
\* condition is spelled out with SearchStepEnabled)
SpecLive ==
  /\ Init
  /\ [][NextCapped]_vars
  /\ WF_vars(StepOfCall)
  /\ ([]<>(~SearchStepEnabled) \/ []<><<SearchStep>>_vars)

\* ----------------------------------------- the fair loop on rounded numbers
\* A JavaScript number keeps a fixed count of significant bits, and every
\* sum, difference and product is rounded to it (to nearest, ties to even).
\* Here a number keeps SignificandBits bits, in mills.
SignificandBits == 8

\* the spacing of the numbers of the size of a >= 0
RECURSIVE UlpOf(_)
UlpOf(a) == IF a < 2^SignificandBits THEN 1 ELSE 2 * UlpOf(a \div 2)

\* x rounded to the nearest number, ties to the even one
Rounded(x) ==
  LET a == Abs(x)
      u == UlpOf(a)
      q == a \div u
      up == 2 * (a % u) > u \/ (2 * (a % u) = u /\ q % 2 = 1)
  IN Sign(x) * (IF up THEN q + 1 ELSE q) * u

\* one iteration of the loop of simulateApplesPaths, every operation rounded
PathsStepRounded(p) ==
  LET \* path 1: invest
      intI         == Rounded(Scale(p.balInvest, p.rLoan_m))
      prinI        == Min(Rounded(p.R - intI), p.balInvest)
      balInvest    == Rounded(p.balInvest - prinI)
      growthI      == Rounded(Scale(p.potInvest, p.rInv_m))
      potInvest    == Rounded(p.potInvest + Rounded(growthI + p.O))
      wealthInvest == Rounded(potInvest - balInvest)
      \* path 2: overpay
      isPayingDebt == p.t <= p.M
      payO         == IF isPayingDebt THEN Rounded(p.R + p.O) ELSE 0
      intO         == IF isPayingDebt
                      THEN Rounded(Scale(p.balOverpay, p.rLoan_m)) ELSE 0
      contribO     == IF isPayingDebt THEN 0 ELSE Rounded(p.R + p.O)
      balOverpay   == IF isPayingDebt
                      THEN Rounded(p.balOverpay
                                    - Min(Rounded(payO - intO), p.balOverpay))
                      ELSE 0
      growthO      == Rounded(Scale(p.potOverpay, p.rInv_m))
      potOverpay   == Rounded(p.potOverpay + Rounded(growthO + contribO))
      wealthOverpay == Rounded(potOverpay - balOverpay)
  IN [p EXCEPT !.t = @ + 1,
               !.balInvest = balInvest,
               !.balOverpay = balOverpay,
               !.potInvest = potInvest,
               !.potOverpay = potOverpay,
               !.investInterest = Rounded(@ + intI),
               !.overpayInterest = Rounded(@ + intO),
               !.investLast =
                  [month |-> p.t, balance |-> balInvest, interest |-> intI,
                   payment |-> p.R, investPot |-> potInvest,
                   investContrib |-> p.O, investGrowth |-> growthI,
                   wealth |-> wealthInvest],
               !.overpayLast =
                  [month |-> p.t, balance |-> balOverpay, interest |-> intO,
                   payment |-> payO, investPot |-> potOverpay,
                   investContrib |-> contribO, investGrowth |-> growthO,
                   wealth |-> wealthOverpay],
               !.deltaWealth =
                  Append(@, Rounded(wealthOverpay - wealthInvest))]

\* one iteration of the loop of simulateApplesPaths on rounded numbers
DLPathsStepRounded ==
  /\ pc = "dl_fair"
  /\ paths.t <= paths.N
  /\ paths' = PathsStepRounded(paths)
  /\ UNCHANGED <<pc, fn, input, rjVars, err, dl, ledger, ts>>
  /\ UNCHANGED uiVars

\* the inputs are numbers as they are (Rounded leaves each unchanged): a
\* loan of 1.000 at 0% or at 12% over 12 months, paid 0.100 to 0.104 a month
\* and overpaid by 0.033 to 0.037, and loans over 2 months whose break-even
\* return is searched for
DLRoundedInputs ==
  [outstandingBalance          : {1000},
   remainingTermMonths         : {24},
   aprPercent                  : {0, 12},
   currentMonthlyPayment       : 100..104,
   monthlyOverpayment          : 33..37,
   expectedAnnualReturnPercent : {0, 5}]
  \cup
  {[outstandingBalance |-> in[1], remainingTermMonths |-> 4,
    aprPercent |-> in[2], currentMonthlyPayment |-> in[3],
    monthlyOverpayment |-> in[4], expectedAnnualReturnPercent |-> 0] :
     in \in {<<2^20, 0, 65 * 2^13, 125 * 2^12>>,
             <<25 * 2^22, 0, 13 * 2^22, 25 * 2^21>>,
             <<2^13, 409500, 3 * 2^12, 2^12>>,
             <<200, 409500, 100, 0>>}}

CallDualLedgerJourneyRounded ==
  /\ pc = "idle" /\ \E in \in DLRoundedInputs : DLCall(in)
  /\ UNCHANGED uiVars

NextRounded ==
  \/ CallDualLedgerJourneyRounded
  \/ DLLedgerStep
  \/ DLBaseReturn
  \/ DLOverReturn
  \/ DLPathsStepRounded
  \/ DLFairReturn
  \/ DLBisectStep
  \/ DLBisectEnd
  \/ DLReturn
  \/ NextCall

SpecRounded == Init /\ [][NextRounded]_vars

\* ------------------------------------------------ the web page (main.js)
\* what readInputs() returns: the balance clamped to 0 or more, the months
\* floored and at least 1, the APR and the overpayment clamped to 0 or more;
\* a field that is not a number reads as NaN
DomInputs == [outstandingBalance  : {NaN, 0, 100, 120},
              remainingTermMonths : {NaN, 4, 6},
              aprPercent          : {0, 300},
              monthlyOverpayment  : {0, 10}]

\* await import(...) resolves
LoadEngine ==
  /\ pc = "idle"
  /\ engine = "null"
  /\ engine' = "loaded"
  /\ UNCHANGED <<pc, fn, input, rjVars, err, dlVars, ts>>
  /\ UNCHANGED <<recomputeScheduled, microtasks, dom, eventsSince>>

\* mutant of ScheduleRecompute: the flag is not looked at
ScheduleRecompute_AlwaysQueues ==
  /\ recomputeScheduled' = TRUE
  /\ microtasks' = microtasks + 1

\* scheduleRecompute()
ScheduleRecompute ==
  IF recomputeScheduled
  THEN UNCHANGED <<recomputeScheduled, microtasks>>
  ELSE /\ recomputeScheduled' = TRUE
       /\ microtasks' = microtasks + 1

\* recompute(), d being what readInputs() returns
Recompute(d) ==
  IF engine = "null" \/ ~IsFinite(d.outstandingBalance)
                     \/ d.outstandingBalance = 0
  THEN UNCHANGED <<pc, fn, input, rjVars, err, dlVars, ts>>
  ELSE RJCall(d)

\* an input or change event of one of the four fields: the field has a new
\* value and the listener, scheduleRecompute, runs.  Events are handled
\* between calls only; several may be handled before the microtask runs.
FormEvent ==
  /\ pc = "idle"
  /\ eventsSince < MaxBurst
  /\ \E d \in DomInputs : dom' = d
  /\ ScheduleRecompute
  /\ eventsSince' = eventsSince + 1
  /\ UNCHANGED <<pc, fn, input, rjVars, err, dlVars, ts, engine>>

\* the queued callback: recomputeScheduled = false; recompute()
RunMicrotask ==
  /\ pc = "idle"
  /\ microtasks > 0
  /\ microtasks' = microtasks - 1
  /\ recomputeScheduled' = FALSE
  /\ eventsSince' = 0
  /\ Recompute(dom)
  /\ UNCHANGED <<engine, dom>>

\* a change event of the loan-type radios: applyLoanTypeUI() sets the
\* placeholders and the slider and calls recompute() itself.  It is a task
\* of its own, so it starts with the microtask queue empty.
ApplyLoanTypeUI ==
  /\ pc = "idle"
  /\ microtasks = 0
  /\ \E d \in DomInputs : dom' = d /\ Recompute(d)
  /\ UNCHANGED <<engine, recomputeScheduled, microtasks, eventsSince>>

\* recompute() returns to the event loop
RecomputeReturns ==
  /\ fn = "rj"
  /\ NextCall

NextUI ==
  \/ LoadEngine
  \/ FormEvent
  \/ RunMicrotask
  \/ ApplyLoanTypeUI
  \/ RJSimStep
  \/ RJBaseReturn
  \/ RJOverReturn
  \/ RecomputeReturns

\* the page's script runs to its end once started, and the event loop runs
\* the queued microtasks when the script has ended
SpecUI ==
  /\ Init
  /\ [][NextUI]_vars
  /\ WF_vars(RJSimStep \/ RJBaseReturn \/ RJOverReturn \/ RecomputeReturns)
  /\ WF_vars(RunMicrotask)

\* ------------------------------------------------------------------ claims
RJDone == pc = "done" /\ fn = "rj"

\* C1: with monthlyOverpayment = 0 the journey reports monthsSaved = 0 and
\* interestSaved = 0, the with-overpayment simulation being the baseline one.
C1_ZeroOverpaymentIsBaseline ==
  (RJDone /\ input.monthlyOverpayment = 0)
    => /\ result.monthsSaved = 0
       /\ result.interestSaved = 0
       /\ withOver = base

C1_Witness ==
  /\ RJDone
  /\ input.monthlyOverpayment = 0
  /\ base.months >= 2
  /\ base.totalInterest > 0
  /\ result.monthsSaved = 0

\* C2: with monthlyOverpayment > 0 the with-overpayment simulation takes no
\* more months and accrues no more interest than the baseline.
C2_OverpaymentNeverWorse ==
  (RJDone /\ input.monthlyOverpayment > 0)
    => /\ withOver.months <= base.months
       /\ withOver.totalInterest <= base.totalInterest

C2_Witness ==
  /\ RJDone
  /\ input.monthlyOverpayment > 0
  /\ withOver.months < base.months
  /\ withOver.totalInterest < base.totalInterest

\* C3: in a simulation that ends with balance zero, the principal column of
\* the schedule sums to the original outstanding balance within 2 pence
\* (20 mills).
C3_PrincipalConservation ==
  RJDone =>
    \A s \in {base, withOver} :
      s.finalBalance = 0 => Abs(s.principalSum - input.outstandingBalance) <= 20

C3_Witness ==
  /\ RJDone
  /\ withOver.finalBalance = 0
  /\ withOver.months >= 2
  /\ withOver.last.principal < withOver.principalSum
  /\ withOver.principalSum # input.outstandingBalance

\* C4: at 0% APR with no overpayment the baseline has totalInterest = 0 and
\* months = remainingTermMonths.
C4_ZeroAprLinear ==
  (RJDone /\ loan.principal > 0 /\ input.aprPercent = 0 /\ input.monthlyOverpayment = 0)
    => /\ base.totalInterest = 0
       /\ base.months = loan.remainingMonths

\* C5: with no overpayment (any APR) the baseline clears the loan in exactly
\* the remaining term.
C5_BaselineMonthsEqualTerm ==
  (RJDone /\ loan.principal > 0 /\ input.monthlyOverpayment = 0)
    => base.months = loan.remainingMonths

\* every check of the input the spec lists, in the spec's words
ValidationErrors ==
  {"Invalid inputs",
   "Outstanding balance must be > 0.", "Remaining term must be >= 1.",
   "APR must be >= 0.", "Current monthly payment must be > 0.",
   "Monthly overpayment must be >= 0.",
   "Invalid outstanding balance", "Invalid remaining term", "Invalid APR",
   "Invalid overpayment", "Invalid expected return"}

NonFiniteOrNegative(x) == x \in {NaN, Infinity} \/ x < 0
TermNotIntegerAtLeastOne(h) == h \in {NaN, Infinity} \/ h % 2 # 0 \/ h < 2

InputCheckFails ==
  \/ NonFiniteOrNegative(input.outstandingBalance)
  \/ TermNotIntegerAtLeastOne(input.remainingTermMonths)
  \/ NonFiniteOrNegative(input.aprPercent)
  \/ NonFiniteOrNegative(input.monthlyOverpayment)

NothingComputed ==
  /\ loan = NoLoan /\ sim = NoSim /\ base = NoResult /\ withOver = NoResult
  /\ result = NoJourney
  /\ dl = NoDL /\ ledger = NoLedger /\ paths = NoPaths
  /\ ts = NoTS

\* C6: when an input check fails (balance, APR or overpayment negative or
\* non-finite, term not an integer >= 1) the facade has thrown a validation
\* error, no simulation step has run and no result exists.
C6_InvalidInputFailsFast ==
  (fn # "none" /\ InputCheckFails)
    => /\ pc = "error"
       /\ err \in ValidationErrors
       /\ NothingComputed

C6_Witness ==
  /\ fn = "rj"
  /\ pc = "error"
  /\ input.outstandingBalance = 30
  /\ input.remainingTermMonths = 3
  /\ input.aprPercent = 300
  /\ input.monthlyOverpayment = 10

OtherInputsValid ==
  /\ ~TermNotIntegerAtLeastOne(input.remainingTermMonths)
  /\ ~NonFiniteOrNegative(input.aprPercent)
  /\ ~NonFiniteOrNegative(input.monthlyOverpayment)
  /\ fn = "dl" => /\ ~NonFiniteOrNegative(input.currentMonthlyPayment)
                  /\ input.currentMonthlyPayment > 0
  /\ fn = "ts" => ~NonFiniteOrNegative(input.expectedAnnualReturnPercent)

\* C7 as stated: a call with outstandingBalance = 0 and all other inputs valid
\* fails with a validation error, in calculateRepaymentJourney and in
\* calculateDualLedgerJourney.
C7_ZeroBalanceRejected ==
  (fn # "none" /\ input.outstandingBalance = 0 /\ OtherInputsValid)
    => (pc = "error" /\ err \in ValidationErrors)

\* C7 amended: only engine.js's calculateDualLedgerJourney rejects a balance
\* of 0 ("Outstanding balance must be > 0."); calculateRepaymentJourney and
\* index.ts's calculateDualLedgerJourney reject only a negative or non-finite
\* balance and never fail on a balance of 0 whose other inputs are valid.
C7_ZeroBalanceRejectedOnlyByEngineJs ==
  (fn # "none" /\ input.outstandingBalance = 0 /\ OtherInputsValid)
    => IF fn = "dl"
       THEN pc = "error" /\ err = "Outstanding balance must be > 0."
       ELSE pc # "error" /\ err = ""

C7_Witness ==
  /\ RJDone
  /\ input.outstandingBalance = 0
  /\ OtherInputsValid
  /\ base.months = 0
  /\ withOver.months = 0

\* the payment applied to the loan is below the first period's interest
PaymentBelowFirstInterest ==
  CASE fn = "rj" ->
         /\ loan # NoLoan
         /\ LET r == MonthlyRate(loan.aprPercent)
            IN RequiredMonthlyPayment(loan)
                 < MathRound(loan.principal * r[1], r[2])
    [] fn = "dl" ->
         /\ DLInvalid(input) = ""
         /\ input.currentMonthlyPayment
              < Scale(input.outstandingBalance,
                      MonthlyRateFromAPR(Percent(input.aprPercent)))
    [] fn = "ts" ->
         /\ ts # NoTS
         /\ ts.R < Scale(ts.P0, ts.r)
    [] OTHER -> FALSE

\* C8: whenever the payment applied to the loan is below the first period's
\* interest the call has failed with the explicit balance-will-grow error,
\* upfront: no schedule entry was produced.
C8_PaymentBelowInterestRejected ==
  PaymentBelowFirstInterest
    => /\ pc = "error"
       /\ err \in {BalanceWillIncrease, BalanceWillGrow}
       /\ ledger = NoLedger /\ sim = NoSim /\ paths = NoPaths

\* C9: for every valid input the amortization loop stops because the balance
\* reached zero, never because the safety cap on months was hit.
C9_LoopEndsAtZeroBalance ==
  /\ (fn = "rj" /\ pc \in {"rj_over", "done"})
       => (base.finalBalance = 0 /\ base.months < MAX_MONTHS(loan))
  /\ RJDone
       => (withOver.finalBalance = 0 /\ withOver.months < MAX_MONTHS(loan))
  /\ (fn = "dl" /\ pc \in {"dl_over", "dl_fair", "done"})
       => /\ ~ExceedsEPS(dl.baseline.finalBalance)
          /\ dl.baseline.months < dl.N + SimulateLoanCapExtra
  /\ (fn = "dl" /\ pc \in {"dl_fair", "done"})
       => /\ ~ExceedsEPS(dl.withOverpay.finalBalance)
          /\ dl.withOverpay.months < dl.N + SimulateLoanCapExtra

\* a pounds figure (in units of 1/den mill) that is a whole number of pence
WholePence(x, den) == x % (10 * den) = 0

EntryFigures(e) ==
  {e.openingBalance, e.interest, e.principal, e.overpayment,
   e.requiredPayment, e.closingBalance}
PointFigures(e) ==
  {e.balance, e.interest, e.payment, e.investPot, e.investContrib,
   e.investGrowth, e.wealth}

RJFigures ==
  EntryFigures(base.last) \cup EntryFigures(withOver.last)
    \cup {base.totalInterest, withOver.totalInterest, result.interestSaved}

DLFigures ==
  {dl.baseline.totalInterest, dl.withOverpay.totalInterest,
   dl.baseline.last.balance, dl.baseline.last.interest,
   dl.baseline.last.payment, dl.withOverpay.last.balance,
   dl.withOverpay.last.interest, dl.withOverpay.last.payment,
   dl.interestSaved, dl.R,
   dl.fair.investPath.totalInterest, dl.fair.investPath.finalPot,
   dl.fair.overpayPath.totalInterest, dl.fair.overpayPath.finalPot,
   dl.fair.atN.investPot, dl.fair.atN.overpayPot, dl.fair.atN.delta}
    \cup PointFigures(dl.fair.investPath.last)
    \cup PointFigures(dl.fair.overpayPath.last)

TSFigures ==
  {ts.R, ts.baseInterest, ts.overpayInterest,
   ts.baseInterest - ts.overpayInterest, ts.investInt, ts.overpayIntFair,
   ts.investPot, ts.overpayPot, ts.overpayPot - ts.investPot}
    \cup PointFigures(ts.baseLast) \cup PointFigures(ts.overpaySimpleLast)
    \cup PointFigures(ts.investLast) \cup PointFigures(ts.overpayLast)

\* C10: every monetary figure of a returned result is a whole number of
\* pence, in the simple and in the dual-ledger journey.
C10_FiguresAreWholePence ==
  pc = "done" =>
    /\ fn = "rj" => \A x \in RJFigures : WholePence(x, 1)
    /\ fn = "dl" => \A x \in DLFigures : WholePence(x, 1)
    /\ fn = "ts" => \A x \in TSFigures : WholePence(x, ts.den)

\* an entry has been pushed on the two fair-comparison schedules
DLFairPushed == fn = "dl" /\ pc \in {"dl_fair", "done"} /\ paths.t > 1
TSFairPushed == fn = "ts" /\ pc \in {"ts_fair", "done"} /\ ts.month > 1

\* C11: in the Invest path every period t of 1..N records the loan payment
\* R and the investment contribution O (each entry pushed is checked when it
\* is the last one), whatever the loan balance.
C11_InvestPathPaysRAndInvestsO ==
  /\ DLFairPushed
       => /\ paths.investLast.month = paths.t - 1
          /\ paths.investLast.payment = input.currentMonthlyPayment
          /\ paths.investLast.investContrib = input.monthlyOverpayment
  /\ TSFairPushed
       => /\ ts.investLast.month = ts.month - 1
          /\ ts.investLast.payment = ts.R
          /\ ts.investLast.investContrib = input.monthlyOverpayment * ts.den

C11_Witness ==
  /\ fn = "ts" /\ pc = "done"
  /\ ts.R > 0
  /\ input.monthlyOverpayment > 0
  /\ ts.investLast.month >= 2
  /\ ts.investLast.investPot > ts.investLast.investContrib

\* an Overpay-path entry of payoff month M: debt is paid up to M, the whole
\* R+O is invested after it
OverpayEntryOK(e, M, RplusO) ==
  IF e.month <= M
  THEN e.payment = RplusO /\ e.investContrib = 0 /\ e.investPot = 0
  ELSE e.balance = 0 /\ e.payment = 0 /\ e.investContrib = RplusO

\* C12: in the Overpay path every period t <= M pays R+O on the loan and
\* invests nothing (the pot stays 0); every period t > M has balance 0,
\* payment 0 and contribution R+O: the switch happens once, after month M.
C12_OverpaySwitchesOnceAfterM ==
  /\ DLFairPushed
       => /\ paths.overpayLast.month = paths.t - 1
          /\ OverpayEntryOK(paths.overpayLast, dl.withOverpay.months,
                            input.currentMonthlyPayment + input.monthlyOverpayment)
  /\ TSFairPushed
       => /\ ts.overpayLast.month = ts.month - 1
          /\ OverpayEntryOK(ts.overpayLast, ts.M,
                            ts.R + input.monthlyOverpayment * ts.den)

C12_Witness ==
  /\ fn = "dl" /\ pc = "done"
  /\ dl.withOverpay.months < dl.baseline.months
  /\ paths.overpayLast.month > dl.withOverpay.months
  /\ paths.overpayLast.investContrib > 0
  /\ paths.overpayLast.balance = 0

WealthOK(e) == e.wealth = e.investPot - e.balance

\* C13: in every LedgerPoint of both paths, wealth is the point's investPot
\* minus the point's loan balance.
C13_WealthIsPotMinusBalance ==
  /\ DLFairPushed => WealthOK(paths.investLast) /\ WealthOK(paths.overpayLast)
  /\ TSFairPushed => WealthOK(ts.investLast) /\ WealthOK(ts.overpayLast)

C13_Witness ==
  /\ fn = "ts" /\ pc = "ts_fair"
  /\ ts.investLast.balance > 0
  /\ ts.investLast.investPot > 0
  /\ ts.investLast.wealth < 0
  /\ ts.overpayLast.balance > 0

\* the periods whose recorded overpay-path wealth reaches the invest-path's
\* (engine.js keeps the difference per period in deltaWealthByMonth)
DLCrossPeriods ==
  {t \in 1..dl.baseline.months : dl.deltaWealthByMonth[t] >= 0}

\* every difference recorded is the one of the two entries pushed with it
DLDeltaIsWealthDifference ==
  DLFairPushed
    => /\ Len(paths.deltaWealth) = paths.t - 1
       /\ paths.deltaWealth[paths.t - 1]
            = paths.overpayLast.wealth - paths.investLast.wealth

\* engine.js alone: crossoverMonth is the first period of 1..N whose overpay
\* wealth reaches the invest wealth, null when there is none
DLCrossoverIsFirst ==
  (fn = "dl" /\ pc = "done")
    => /\ "crossoverMonth" \in DLFairKeys
       /\ Len(dl.deltaWealthByMonth) = dl.baseline.months
       /\ IF DLCrossPeriods = {}
          THEN dl.crossoverMonth = Null
          ELSE /\ dl.crossoverMonth \in DLCrossPeriods
               /\ \A t \in DLCrossPeriods : dl.crossoverMonth <= t

\* C14: the crossoverMonth of a dual-ledger result is the smallest period t
\* of 1..N at which overpay-path wealth >= invest-path wealth, and null
\* exactly when there is none; both engines' results are covered.
C14_CrossoverIsFirstMonthOverpayAhead ==
  /\ DLDeltaIsWealthDifference
  /\ DLCrossoverIsFirst
  /\ (fn = "ts" /\ pc = "done") => "crossoverMonth" \in TSFairKeys

\* C15: with monthlyOverpayment = 0 the payoff month M equals the horizon N,
\* both investment pots are 0 at period N and atN.delta = 0, whatever the
\* expected return.
C15_ZeroOverpaymentNoEarlyClearance ==
  /\ (fn = "dl" /\ pc = "done" /\ input.monthlyOverpayment = 0)
       => /\ dl.withOverpay.months = dl.baseline.months
          /\ paths.M = paths.N
          /\ dl.fair.atN.investPot = 0
          /\ dl.fair.atN.overpayPot = 0
          /\ dl.fair.atN.delta = 0
  /\ (fn = "ts" /\ pc = "done" /\ input.monthlyOverpayment = 0)
       => /\ ts.M = ts.N
          /\ ts.investLast.investPot = 0
          /\ ts.overpayLast.investPot = 0
          /\ ts.overpayLast.investPot - ts.investLast.investPot = 0

GrowsThenAdds(e, pot, r, first) ==
  /\ e.investGrowth = Scale(pot, r)
  /\ e.investPot = pot + e.investGrowth + e.investContrib
  /\ first => e.investGrowth = 0

\* C20: in every investment step of both engines the growth of the period
\* is the pot at the end of the previous period times the monthly rate, and
\* the new pot is the old pot plus that growth plus the contribution; the
\* contribution earns nothing in its own period, and the growth of the
\* first period is 0.
C20_ContributionAddedAfterGrowth ==
  [][ /\ (pc = "dl_fair" /\ paths'.t = paths.t + 1) =>
          /\ GrowsThenAdds(paths'.investLast, paths.potInvest, paths.rInv_m,
                           paths.t = 1)
          /\ GrowsThenAdds(paths'.overpayLast, paths.potOverpay, paths.rInv_m,
                           paths.t = 1)
      /\ (pc = "ts_fair" /\ ts'.month = ts.month + 1) =>
          /\ GrowsThenAdds(ts'.investLast, ts.investPot, ts.rInv, ts.month = 1)
          /\ GrowsThenAdds(ts'.overpayLast, ts.overpayPot, ts.rInv,
                           ts.month = 1) ]_vars

\* a step of index.ts has added a contribution to a pot that grew
C20_Witness ==
  /\ fn = "ts"
  /\ pc = "ts_fair"
  /\ ts.investLast.investGrowth > 0
  /\ ts.investLast.investContrib > 0
  /\ ts.investLast.investPot
       > ts.investLast.investGrowth + ts.investLast.investContrib

\* the deltas the two solvers evaluate, and would evaluate at 100%
DLDeltaAtZero    == DeltaAt(BreakEvenArgs, Percent(0))
DLDeltaAtHundred == DeltaAt(BreakEvenArgs, Percent(100))
TSDeltaAtZero    == TSDeltaAt(ts, Percent(0))
TSDeltaAtFifty   == TSDeltaAt(ts, Percent(TSBreakEvenHi))
TSDeltaAtHundred == TSDeltaAt(ts, Percent(100))

DLSolved == fn = "dl" /\ pc = "done"
TSSolved == fn = "ts" /\ pc = "done"

\* C16: when the overpay path's final pot exceeds the invest path's final
\* pot at a return of 0%, the break-even solver returns 0%.
C16_DominanceAtZeroReturnsZero ==
  /\ (DLSolved /\ DLDeltaAtZero > 0) => dl.breakEvenAnnualReturnPercent = 0
  /\ (TSSolved /\ TSDeltaAtZero > 0) => ts.breakEvenAnnualReturnPercent = 0

\* C17: when the delta at 0% is outside the tolerance and has the sign of
\* the delta at the upper bound of the search (100% in engine.js, 50% in
\* index.ts), the solver returns null.
C17_NoSignChangeReturnsNull ==
  /\ (DLSolved /\ Abs(DLDeltaAtZero) >= BreakEvenTolerance
               /\ Sign(DLDeltaAtZero) = Sign(DLDeltaAtHundred))
       => dl.breakEvenAnnualReturnPercent = Null
  /\ (TSSolved /\ ~TSWithinTolerance(ts, TSDeltaAtZero)
               /\ Sign(TSDeltaAtZero) = Sign(TSDeltaAtFifty))
       => ts.breakEvenAnnualReturnPercent = Null

\* engine.js has returned null for a loan of pounds whose overpay pot is
\* ahead by more than the tolerance at 0% and at 100%
C17_Witness ==
  /\ DLSolved
  /\ input \in DLPoundsInputs
  /\ DLDeltaAtZero >= BreakEvenTolerance
  /\ DLDeltaAtHundred > 0
  /\ dl.breakEvenAnnualReturnPercent = Null

\* C18: the solver searches 0% to 100%: when the delta at 0% is outside the
\* tolerance and the delta at 100% has the opposite sign, it returns a
\* numeric rate, and every numeric rate it returns lies in [0, 100].
C18_SearchesZeroToHundred ==
  /\ (DLSolved /\ Abs(DLDeltaAtZero) >= BreakEvenTolerance
               /\ Sign(DLDeltaAtZero) * Sign(DLDeltaAtHundred) < 0)
       => dl.breakEvenAnnualReturnPercent # Null
  /\ (DLSolved /\ dl.breakEvenAnnualReturnPercent # Null)
       => dl.breakEvenAnnualReturnPercent \in 0..(100 * PercentUnit)
  /\ (TSSolved /\ ~TSWithinTolerance(ts, TSDeltaAtZero)
               /\ Sign(TSDeltaAtZero) * Sign(TSDeltaAtHundred) < 0)
       => ts.breakEvenAnnualReturnPercent # Null
  /\ (TSSolved /\ ts.breakEvenAnnualReturnPercent # Null)
       => ts.breakEvenAnnualReturnPercent \in 0..(100 * PercentUnit)

\* the fair loop of the running call is over
DLFairDone == fn = "dl" /\ pc \in {"dl_bisect", "done"}
TSFairDone == fn = "ts" /\ pc \in {"ts_bisect", "done"}

\* C21: at an expected annual return of 0% the future value of a fixed
\* contribution c over n periods is c * n; the final pot of the invest path
\* is monthlyOverpayment * N, N being the number of periods of the fair
\* comparison.
C21_ZeroReturnFutureValueIsLinear ==
  /\ (DLFairDone /\ input.expectedAnnualReturnPercent = 0)
       => /\ dl.fair.atN.investPot = dl.O * dl.baseline.months
          /\ dl.fair.investPath.finalPot = dl.O * dl.baseline.months
  /\ (TSFairDone /\ input.expectedAnnualReturnPercent = 0)
       => /\ ts.investLast.investPot = ts.O * ts.N
          /\ FutureValueStream(ts.O, ts.N, ts.rInv) = ts.O * ts.N
          /\ FutureValueStream(ts.R + ts.O, ts.N - ts.M, ts.rInv)
               = (ts.R + ts.O) * (ts.N - ts.M)

\* index.ts has invested a positive overpayment for 3 periods at 0%
C21_Witness ==
  /\ TSFairDone
  /\ input.expectedAnnualReturnPercent = 0
  /\ ts.N = 3
  /\ ts.O > 0
  /\ ts.investLast.investPot = 3 * ts.O

\* expected annual returns, in percent, at which the final pots are compared
ReturnSamples == {0, 5, 50, 100}

\* the final pots of simulateApplesPaths for the loan of the running call
\* of engine.js, had the expected annual return been a percent
DLPotsAt(a) ==
  SimulateApplesPaths(dl.P, dl.baseline.months, dl.rLoan_m, dl.R, dl.O,
                      dl.withOverpay.months, Percent(a)).atN

\* the final pots of the fair loop of the running call of index.ts, had the
\* expected annual return been a percent
TSPotsAt(a) ==
  [investPot  |-> InvestPotAfter(ts, AnnualToMonthlyRate(Percent(a)), ts.N),
   overpayPot |-> OverpayPotAfter(ts, AnnualToMonthlyRate(Percent(a)), ts.N)]

\* C22: with all other inputs fixed, a higher expected annual return never
\* gives a lower final investment pot, on either path of either engine.
C22_PotMonotoneInReturn ==
  /\ DLFairDone =>
       \A r1, r2 \in ReturnSamples \cup {-12} :
          r1 <= r2 => /\ DLPotsAt(r1).investPot <= DLPotsAt(r2).investPot
                      /\ DLPotsAt(r1).overpayPot <= DLPotsAt(r2).overpayPot
  /\ TSFairDone =>
       \A r1, r2 \in ReturnSamples :
          r1 <= r2 => /\ TSPotsAt(r1).investPot <= TSPotsAt(r2).investPot
                      /\ TSPotsAt(r1).overpayPot <= TSPotsAt(r2).overpayPot

\* index.ts has finished a fair loop whose invest pot is larger at 5% than
\* at 0%, and larger at 100% than at 5%
C22_Witness ==
  /\ TSFairDone
  /\ TSPotsAt(0).investPot < TSPotsAt(5).investPot
  /\ TSPotsAt(5).investPot < TSPotsAt(100).investPot

\* what index.ts returns, read off the locals of the finished call
TSReturned ==
  [threw |-> FALSE, err |-> "",
   den |-> ts.den,
   baseline    |-> [months |-> ts.N, totalInterest |-> ts.baseInterest],
   withOverpay |-> [months |-> ts.M, totalInterest |-> ts.overpayInterest],
   interestSaved |-> ts.baseInterest - ts.overpayInterest,
   monthsSaved |-> ts.N - ts.M,
   requiredMonthlyPayment |-> ts.R,
   fair |-> [investPath  |-> [months |-> ts.N, totalInterest |-> ts.investInt,
                              finalPot |-> ts.investLast.investPot,
                              finalWealth |-> ts.investLast.wealth],
             overpayPath |-> [months |-> ts.N,
                              totalInterest |-> ts.overpayIntFair,
                              finalPot |-> ts.overpayLast.investPot,
                              finalWealth |-> ts.overpayLast.wealth],
             breakEvenAnnualReturnPercent |-> ts.breakEvenAnnualReturnPercent,
             atN |-> [investPot |-> ts.investLast.investPot,
                      overpayPot |-> ts.overpayLast.investPot,
                      delta |-> ts.overpayLast.investPot
                                  - ts.investLast.investPot]]]

\* what engine.js returns, read off the locals of the finished call
DLReturned ==
  [threw |-> FALSE, err |-> "",
   baseline |-> dl.baseline, withOverpay |-> dl.withOverpay,
   interestSaved |-> dl.interestSaved, monthsSaved |-> dl.monthsSaved,
   fair |-> dl.fair, deltaWealthByMonth |-> dl.deltaWealthByMonth,
   crossoverMonth |-> dl.crossoverMonth,
   breakEvenAnnualReturnPercent |-> dl.breakEvenAnnualReturnPercent]

\* what main.js returns, read off the locals of the finished call
RJReturned ==
  [threw |-> FALSE, err |-> "", base |-> base, withOver |-> withOver,
   result |-> result]

\* C23: the entry points are deterministic and stateless: whatever calls
\* were made before and whatever they left behind, a call returns (or
\* throws) what its input alone determines, and within a call of main.js
\* the loan is not modified, so that both simulations start from it.
C23_CallsAreFunctionsOfTheirInput ==
  /\ (fn = "rj" /\ pc = "done")
       => RJReturned = CalculateRepaymentJourney(input, loan.requiredPay)
  /\ (fn = "dl" /\ pc = "done")
       => DLReturned = CalculateDualLedgerJourney(input)
  /\ (fn = "ts" /\ pc = "done")
       => TSReturned = CalculateDualLedgerJourneyTS(input)
  /\ (fn = "rj" /\ pc = "error")
       => Threw(err) = CalculateRepaymentJourney(input, loan.requiredPay)
  /\ (fn = "dl" /\ pc = "error")
       => Threw(err) = CalculateDualLedgerJourney(input)
  /\ (fn = "ts" /\ pc = "error")
       => Threw(err) = CalculateDualLedgerJourneyTS(input)
  /\ (fn = "rj" /\ pc \in {"rj_base", "rj_over", "done"})
       => /\ loan = RJLoan(input, loan.requiredPay)
          /\ sim.month = 0 => sim.balance = loan.principal

\* main.js has returned a journey while the results of earlier calls of
\* both dual-ledger engines are still in place
C23_Witness ==
  /\ fn = "rj"
  /\ pc = "done"
  /\ base.months > 0
  /\ dl.baseline.months > 0
  /\ dl.breakEvenAnnualReturnPercent > 0
  /\ ts.N > 0
  /\ ts.investLast.investPot > 0

\* the iterations made so far by the loops of the running call stay within
\* their caps, and a fair loop that is over has made exactly N iterations
IterationBounds ==
  /\ (fn = "rj" /\ pc \in {"rj_base", "rj_over", "done"})
       => sim.month <= loan.remainingMonths + SafetyCapMonths
  /\ (fn = "dl" /\ pc \in {"dl_base", "dl_over"})
       => ledger.months <= dl.N + SimulateLoanCapExtra
  /\ (fn = "dl" /\ pc = "dl_fair") => paths.t - 1 <= paths.N
  /\ DLFairDone => /\ paths.t - 1 = dl.baseline.months
                   /\ dl.solver.i <= BisectIterations
  /\ (fn = "ts" /\ pc \in {"ts_base", "ts_over", "ts_fair"})
       => ts.month - 1 <= ts.N
  /\ TSFairDone => /\ ts.month - 1 = ts.N
                   /\ ts.solver.i <= TSBisectIterations

\* C24: every call terminates after a bounded number of steps: the loops
\* stay within their caps (remainingMonths + 6000, maxMonths + 120, N, 50
\* and 80 iterations), and every call that has started returns or throws.
C24_EveryCallTerminatesWithinBounds ==
  /\ []IterationBounds
  /\ (pc # "idle") ~> (pc \in {"done", "error"})

\* a simulation of main.js has been ended by the cap, with a balance left
C24_Witness ==
  /\ fn = "rj"
  /\ pc = "done"
  /\ base.months = loan.remainingMonths + SafetyCapMonths
  /\ base.finalBalance > 0

\* a step of OverpaymentSimulator.simulate keeps the loan invariant
RJStepKept ==
  (fn = "rj" /\ sim'.month = sim.month + 1) =>
    LET e        == sim'.last
        r        == MonthlyRate(loan.aprPercent)
        payment  == RequiredMonthlyPayment(loan) + sim.overpay
        interest == e.interestPence
    IN /\ interest = MathRound(sim.balance * r[1], r[2])
       /\ e.principal = ToNumber(Min(Max(0, payment - interest), sim.balance))
       /\ 0 <= e.principal /\ e.principal <= ToNumber(sim.balance)
       /\ ToNumber(sim'.balance) = ToNumber(sim.balance) - e.principal
       /\ 0 <= sim'.balance /\ sim'.balance <= sim.balance

\* the balance and the interest the step reports are those of the invariant
\* for a step of LoanLedger from the balance opening, paying payment
LedgerStepKept(opening, closing, interest, payment) ==
  LET principal == Min(Max(0, payment - interest), opening)
  IN /\ closing = opening - principal
     /\ 0 <= principal /\ principal <= opening
     /\ 0 <= closing /\ closing <= opening

\* interest is opening * r rounded to the nearest penny (ts.den units a mill)
InterestRoundedToPenny(opening, interest) ==
  /\ WholePence(interest, ts.den)
  /\ 2 * Abs(interest - Scale(opening, ts.r)) <= 10 * ts.den

\* the steps of LoanLedger made by one iteration of a loop of index.ts
TSStepsKept ==
  /\ (pc = "ts_base" /\ ts'.month = ts.month + 1)
       => /\ LedgerStepKept(ts.baseLoan, ts'.baseLoan,
                            ts'.baseLast.interest, ts.R)
          /\ InterestRoundedToPenny(ts.baseLoan, ts'.baseLast.interest)
  /\ (pc = "ts_over" /\ ts'.month = ts.month + 1)
       => /\ LedgerStepKept(ts.opLoan, ts'.opLoan,
                            ts'.overpaySimpleLast.interest, ts.R + ts.O)
          /\ InterestRoundedToPenny(ts.opLoan, ts'.overpaySimpleLast.interest)
  /\ (pc = "ts_fair" /\ ts'.month = ts.month + 1)
       => /\ LedgerStepKept(ts.investDebt, ts'.investDebt,
                            ts'.investLast.interest, ts.R)
          /\ InterestRoundedToPenny(ts.investDebt, ts'.investLast.interest)
          /\ LedgerStepKept(ts.overpayDebt, ts'.overpayDebt,
                            ts'.overpayLast.interest,
                            IF ts.month <= ts.M THEN ts.R + ts.O ELSE 0)
          /\ InterestRoundedToPenny(ts.overpayDebt, ts'.overpayLast.interest)

\* C25: every loan step keeps closing = opening - principal with
\* principal = min(max(0, payment - interest), opening) between 0 and the
\* opening balance, and interest = opening * monthly rate rounded to the
\* nearest penny, so that the balance is never negative and never increases;
\* in OverpaymentSimulator.simulate and in LoanLedger.step.
C25_LoanStepKeepsInvariant == [][RJStepKept /\ TSStepsKept]_vars

\* the two bisections inside their loops
DLBisecting == fn = "dl" /\ pc = "dl_bisect" /\ ~dl.solver.returned
TSBisecting == fn = "ts" /\ pc = "ts_bisect" /\ ~ts.solver.returned

\* the solver's delta at the search rate a (in 1/PercentUnit percent)
DLDelta(a) == DeltaAt(BreakEvenArgs, <<a, PercentUnit>>)
TSDelta(a) == TSDeltaAt(ts, <<a, PercentUnit>>)

\* the bracket lies in the search range and the deltas at its ends have
\* opposite signs
BracketKept ==
  /\ DLBisecting
       => /\ 0 <= dl.solver.lo /\ dl.solver.lo < dl.solver.hi
          /\ dl.solver.hi <= BreakEvenHi * PercentUnit
          /\ Sign(DLDelta(dl.solver.lo)) * Sign(DLDelta(dl.solver.hi)) < 0
  /\ TSBisecting
       => /\ 0 <= ts.solver.lo /\ ts.solver.lo < ts.solver.hi
          /\ ts.solver.hi <= TSBreakEvenHi * PercentUnit
          /\ Sign(TSDelta(ts.solver.lo)) * Sign(TSDelta(ts.solver.hi)) < 0

\* a value returned from the loop or after it is the midpoint of the bracket,
\* and one returned from the loop has a delta within the tolerance
MidpointReturned ==
  /\ (fn = "dl" /\ pc \in {"dl_bisect", "done"} /\ dl.solver.returned
        /\ dl.solver.hi > dl.solver.lo /\ dl.solver.result # Null
        /\ Abs(dl.solver.fLo) >= BreakEvenTolerance)
       => /\ dl.solver.result = (dl.solver.lo + dl.solver.hi) \div 2
          /\ dl.solver.i < BisectIterations
               => Abs(DLDelta(dl.solver.result)) < BreakEvenTolerance
  /\ (fn = "ts" /\ pc \in {"ts_bisect", "done"} /\ ts.solver.returned
        /\ ts.solver.hi > ts.solver.lo /\ ts.solver.result # Null
        /\ ~TSWithinTolerance(ts, ts.solver.fLo))
       => /\ ts.solver.result = (ts.solver.lo + ts.solver.hi) \div 2
          /\ ts.solver.i < TSBisectIterations
               => TSWithinTolerance(ts, TSDelta(ts.solver.result))

\* a step from the bracket lo..hi to lo2..hi2 halves it (on the grid of
\* search rates) by moving to the midpoint the end whose delta has the sign
\* of the midpoint's, signs being those of fLo, fMid and fHi
Halved(lo, hi, lo2, hi2, sLo, sMid, sHi) ==
  LET mid == (lo + hi) \div 2
  IN /\ hi2 - lo2 \in {(hi - lo) \div 2, (hi - lo) - (hi - lo) \div 2}
     /\ \/ lo2 = mid /\ hi2 = hi /\ sMid = sLo
        \/ hi2 = mid /\ lo2 = lo /\ sMid = sHi

BisectionHalves ==
  /\ (DLBisecting /\ dl'.solver.i = dl.solver.i + 1)
       => Halved(dl.solver.lo, dl.solver.hi, dl'.solver.lo, dl'.solver.hi,
                 Sign(DLDelta(dl.solver.lo)),
                 Sign(DLDelta((dl.solver.lo + dl.solver.hi) \div 2)),
                 Sign(DLDelta(dl.solver.hi)))
  /\ (TSBisecting /\ ts'.solver.i = ts.solver.i + 1)
       => Halved(ts.solver.lo, ts.solver.hi, ts'.solver.lo, ts'.solver.hi,
                 Sign(TSDelta(ts.solver.lo)),
                 Sign(TSDelta((ts.solver.lo + ts.solver.hi) \div 2)),
                 Sign(TSDelta(ts.solver.hi)))

\* C26: during bisection 0 <= lo < hi <= upper bound and the deltas at lo
\* and hi have opposite signs; each iteration halves hi - lo by moving the
\* endpoint whose delta sign agrees with the midpoint's; the value returned
\* is the midpoint of the current bracket, early once |delta(mid)| is under
\* the tolerance.
C26_BisectionKeepsBracket ==
  /\ [](BracketKept /\ MidpointReturned)
  /\ [][BisectionHalves]_vars

\* both bisections have run several iterations and returned a midpoint
C26_Witness ==
  /\ fn = "ts"
  /\ pc = "done"
  /\ ts.solver.i >= 5
  /\ ts.solver.result = (ts.solver.lo + ts.solver.hi) \div 2
  /\ ts.solver.lo > 0
  /\ ts.solver.hi < TSBreakEvenHi * PercentUnit

C28_OutflowIsPaymentPlusOverpayment ==
  /\ DLFairPushed
       => /\ paths.investLast.payment + paths.investLast.investContrib
               = dl.R + dl.O
          /\ paths.overpayLast.payment + paths.overpayLast.investContrib
               = dl.R + dl.O
  /\ TSFairPushed
       => /\ ts.investLast.payment + ts.investLast.investContrib
               = ts.R + ts.O
          /\ ts.overpayLast.payment + ts.overpayLast.investContrib
               = ts.R + ts.O

\* index.ts has pushed a period in which the overpay path invests R + O
\* while the invest path still pays R on a loan with interest
C28_Witness ==
  /\ TSFairPushed
  /\ ts.overpayLast.payment = 0
  /\ ts.overpayLast.investContrib = ts.R + ts.O
  /\ ts.investLast.payment = ts.R
  /\ ts.investLast.interest > 0
  /\ ts.O > 0

\* C29: whenever R + O - first-period interest <= P, the two paths have
\* equal wealth at period 1: the wealth delta at period 1 is 0 and
\* crossoverMonth is 1, whatever the expected return.
C29_EqualWealthAtPeriodOne ==
  (DLSolved /\ dl.R + dl.O - Scale(dl.P, dl.rLoan_m) <= dl.P)
    => /\ dl.deltaWealthByMonth[1] = 0
       /\ dl.crossoverMonth = 1

\* C30: scheduleRecompute collapses bursts: recomputeScheduled is true
\* exactly while one recompute microtask is waiting, there is never more
\* than one waiting, an input or change event that arrives while one waits
\* queues nothing and one that arrives while none waits queues one, and
\* every event is followed by a run of the recompute microtask.
FlagMeansOnePending ==
  /\ recomputeScheduled <=> microtasks = 1
  /\ microtasks <= 1

EventArrives == eventsSince' = eventsSince + 1

EventQueuesOnlyWhenNonePending ==
  EventArrives =>
    /\ recomputeScheduled => microtasks' = microtasks
    /\ ~recomputeScheduled => microtasks' = microtasks + 1
    /\ recomputeScheduled'

C30_BurstsCollapseAndRecomputeFollows ==
  /\ []FlagMeansOnePending
  /\ [][EventQueuesOnlyWhenNonePending]_vars
  /\ (eventsSince > 0) ~> (eventsSince = 0)

C30_Witness ==
  /\ eventsSince >= 2
  /\ recomputeScheduled
  /\ microtasks = 1
  /\ engine = "loaded"

====
